---- MODULE Spec2Model ----
(***************************************************************************)
(* Verification model of go-portfolio/websocket-chat: the hub, the rooms   *)
(* and the per-connection pumps of package chat, with the /ws handler of   *)
(* package web that wires a connection into them.                          *)
(*                                                                         *)
(* Goroutines are modelled as processes with a program counter; one action *)
(* is one critical section (the code between Lock and Unlock), one channel *)
(* operation, or one unguarded statement on shared data.  Strings are      *)
(* sequences of tokens, a token being a blank " " or a word, so that       *)
(* strings.TrimSpace is computed and not assumed.                          *)
(***************************************************************************)
EXTENDS Integers, Sequences, FiniteSets, TLC

(* ------------------------------------------------------------------ *)
(* Program constants                                                   *)
(* ------------------------------------------------------------------ *)
HistoryCap == 50
RoomInboxCap == 128
MailboxCap == 16
BroadcastChCap == 128
ReadTimeout == 60
PingPeriod == 45

(* ------------------------------------------------------------------ *)
(* Bounds of the model                                                 *)
(* ------------------------------------------------------------------ *)
MaxHistMsgs == 52
MaxFrames == 1
MaxLeaves == 2
MaxUnregs == 2
MaxBroadcasts == 1
MaxCloses == 2
MaxSends == 1
MaxReplayMsgs == 18
MaxMailMsgs == 18
MaxFanMsgs == 18
MaxFloodMsgs == 128
MaxRaceMsgs == 3
MaxClock == 61

(* ------------------------------------------------------------------ *)
(* Strings                                                             *)
(* ------------------------------------------------------------------ *)
SP == " "
Empty == << >>

RECURSIVE TrimLeft(_)
TrimLeft(s) ==
    IF s # Empty /\ Head(s) = SP THEN TrimLeft(Tail(s)) ELSE s

RECURSIVE TrimRight(_)
TrimRight(s) ==
    IF s # Empty /\ s[Len(s)] = SP THEN TrimRight(SubSeq(s, 1, Len(s) - 1)) ELSE s

TrimSpaceSkipped(s) == s
TrimSpace(s) == TrimRight(TrimLeft(s))

(* ------------------------------------------------------------------ *)
(* Connections, identities and rooms                                   *)
(* ------------------------------------------------------------------ *)
Conns == {"c1", "c2", "c3", "c4"}

Alice == <<"alice">>
Bob == <<"bob">>
Carol == <<"carol">>
Zed == <<"zed">>

\* The identity the auth middleware resolved for the request of connection c.
ConnUser(c) ==
    CASE c = "c1" -> Alice
      [] c = "c2" -> Bob
      [] c = "c3" -> Carol
      [] OTHER    -> Alice

\* The ?room= query parameter of the request of connection c.
ConnQuery(c) ==
    CASE c = "c1" -> "lobby"
      [] c = "c2" -> "lobby"
      [] c = "c3" -> ""
      [] OTHER    -> ""

DefaultRoom(q) == IF q = "" THEN "default" ELSE q

ConnRoom(c) == DefaultRoom(ConnQuery(c))

RoomNames == {"lobby", "default"}

(* ------------------------------------------------------------------ *)
(* Messages                                                            *)
(* ------------------------------------------------------------------ *)
\* ChatMessage.  Timestamp (time.Now) is not modelled; src and n name the
\* goroutine that built the message and its serial number there, so that two
\* messages with equal fields remain two messages.
Msg(type, from, to, text, room, src, n) ==
    [Type |-> type, From |-> from, To |-> to, Text |-> text, Room |-> room,
     src |-> src, n |-> n]

NoMsg == Msg(Empty, Empty, Empty, Empty, "", "", 0)

\* The goroutines that run Hub methods: Hub.Run and two callers of the exported API.
Threads == {"hub", "t1", "t2"}

NoArg == [c |-> "", m |-> NoMsg, k |-> 0]

JoinedMsg(c, rn) ==
    Msg(<<"system">>, ConnUser(c), Empty, <<"joined", SP, rn>>, rn, c, 0)

LeftMsg(c, rn, k) ==
    Msg(<<"system">>, ConnUser(c), Empty, <<"left", SP, rn>>, rn, c, 0 - k)

VARIABLES
    hubClients,    \* Hub.Clients
    hubRooms,      \* the names mapped by Hub.Rooms
    hubMu,         \* the goroutine blocked inside a critical section of Hub.mu, or ""
    broadcastCh,   \* the content of Hub.BroadcastCh
    callPc,        \* where each goroutine stands inside a Hub method
    callArg,       \* the argument of that method call
    roomClients,   \* Room.Clients, per room name
    roomInbox,     \* the content of Room.Broadcast, per room name
    history,       \* Room.History, per room name
    roomPc,        \* where Room.Run of each room stands
    roomCur,       \* the message Room.Run is processing
    privateChan,   \* the content of Client.privateChan, per connection
    connPc,        \* where the handler goroutine (then ReadSocket) of a connection stands
    writePc,       \* where the WriteSocket goroutine of a connection stands
    sent,          \* number of messages ReadSocket of a connection has built
    closeCh,       \* whether Client.CloseCh is closed
    connCloses,    \* number of Conn.Close calls the transport has seen
    panicked,      \* a goroutine panicked (the process is gone)
    closeCalls,    \* history variable: number of Client.Close calls
    roomLog,       \* history variable: every message sent on Room.Broadcast, in order
    processed,     \* history variable: every message Room.Run received, in order
    delivered,     \* history variable: every message put into privateChan, in order
    regCalls,      \* history variable: number of RegisterClient calls per connection
    unregCalls,    \* history variable: number of UnregisterClient calls per connection
    replayed,      \* history variable: the History that RegisterClient replayed
    roomsMade,     \* history variable: per name, the rooms NewRoom made (and the Run loops started)
    gotRoom,       \* history variable: per name, the number of the instance each GetRoom call returned
    dmLog,         \* history variable: every direct message routed, in order
    extSent,       \* number of messages the test driver has sent to a room or a mailbox
    bcCalls,       \* number of messages the test driver has given to Hub.Broadcast
    clock,         \* the time, in seconds since the server started
    readDeadline,  \* the read deadline of each connection's transport
    lastRead       \* history variable: when ReadSocket last read a frame or a pong (or began)

hubVars == <<hubClients, hubRooms, hubMu, broadcastCh>>
callVars == <<callPc, callArg>>
roomVars == <<roomClients, roomInbox, history, roomPc, roomCur, roomLog, processed>>
mailVars == <<privateChan, delivered>>
connVars == <<connPc, writePc, sent>>
closeVars == <<closeCh, connCloses, panicked, closeCalls>>
timeVars == <<clock, readDeadline, lastRead>>
logVars == <<regCalls, unregCalls, replayed, timeVars, roomsMade, gotRoom, dmLog, extSent, bcCalls>>

vars == <<hubVars, callVars, roomVars, mailVars, connVars, closeVars, logVars>>

(* ------------------------------------------------------------------ *)
(* Client                                                              *)
(* ------------------------------------------------------------------ *)
\* NewClient: privateChan is made with room for MailboxCap messages.
Accepts(q) == Len(q) < MailboxCap

\* SendMessage, and the select { case c.PrivateChan() <- msg: default: } of
\* Room.Run and Hub.Broadcast: the mailbox q after one non-blocking send.
SendMessageBlocking(q, msg) == Append(q, msg)
SendMessageAtFront(q, msg) == IF Accepts(q) THEN <<msg>> \o q ELSE q
SendMessage(q, msg) == IF Accepts(q) THEN Append(q, msg) ELSE q

DeliverToBlocking(S, msg) ==
    /\ \A c \in S : Accepts(privateChan[c])
    /\ privateChan' = [c \in Conns |->
          IF c \in S THEN Append(privateChan[c], msg) ELSE privateChan[c]]
    /\ delivered' = [c \in Conns |->
          IF c \in S THEN Append(delivered[c], msg) ELSE delivered[c]]

\* One non-blocking send of msg to each connection of S.
DeliverTo(S, msg) ==
    /\ privateChan' = [c \in Conns |->
          IF c \in S THEN SendMessage(privateChan[c], msg) ELSE privateChan[c]]
    /\ delivered' = [c \in Conns |->
          IF c \in S /\ SendMessage(privateChan[c], msg) # privateChan[c]
          THEN Append(delivered[c], msg) ELSE delivered[c]]

\* The mailbox q after SendMessage of every message of h, first to last.
RECURSIVE SendAll(_, _)
SendAll(q, h) ==
    IF h = << >> THEN q ELSE SendAll(SendMessage(q, Head(h)), Tail(h))

\* Client.Close without close(c.CloseCh): the transport alone is closed
ClientCloseConnOnly(c) ==
    /\ closeCalls' = [closeCalls EXCEPT ![c] = @ + 1]
    /\ connCloses' = [connCloses EXCEPT ![c] = @ + 1]
    /\ UNCHANGED <<closeCh, panicked>>

\* Client.Close: close(c.CloseCh), which panics on a closed channel, and then
\* c.Conn.Close().
ClientClose(c) ==
    /\ closeCalls' = [closeCalls EXCEPT ![c] = @ + 1]
    /\ IF closeCh[c]
       THEN /\ panicked' = TRUE
            /\ UNCHANGED <<closeCh, connCloses>>
       ELSE /\ closeCh' = [closeCh EXCEPT ![c] = TRUE]
            /\ connCloses' = [connCloses EXCEPT ![c] = @ + 1]
            /\ UNCHANGED panicked

(* ------------------------------------------------------------------ *)
(* Room                                                                *)
(* ------------------------------------------------------------------ *)
\* r.Clients[c] = true, on the key set of the map
AddedAlone(members, c) == {c}

Added(members, c) == members \cup {c}

\* a RemoveClient that deletes nothing
RemovedNone(members, c) == members

\* delete(r.Clients, c)
Removed(members, c) == members \ {c}

\* Room.AddClient
AddClientSkipped(rn, c) == UNCHANGED roomClients
AddClient(rn, c) == roomClients' = [roomClients EXCEPT ![rn] = Added(@, c)]

\* Room.RemoveClient
RemoveClientSkipped(rn, c) == UNCHANGED roomClients
RemoveClient(rn, c) == roomClients' = [roomClients EXCEPT ![rn] = Removed(@, c)]

\* Room.OnlineUsers: one username for each member, in the order the map is
\* ranged over; as a bag, the number of entries of each username
OnlineUsersOf(members) ==
    [u \in {ConnUser(c) : c \in members} |->
        Cardinality({c \in members : ConnUser(c) = u})]

OnlineUsers(rn) == OnlineUsersOf(roomClients[rn])

\* r.Broadcast <- msg : blocks while the channel holds RoomInboxCap messages
CanEnqueue(rn) == Len(roomInbox[rn]) < RoomInboxCap

\* BroadcastMessage
Enqueue(rn, msg) ==
    /\ roomInbox' = [roomInbox EXCEPT ![rn] = Append(@, msg)]
    /\ roomLog' = [roomLog EXCEPT ![rn] = Append(@, msg)]

FanoutToAll(rn) == hubClients \cup roomClients[rn]
FanoutTargets(rn) == roomClients[rn]

\* a Room.Run that reads the hub's clients under h.mu before its fan-out
RoomFanoutUnderHubLock(rn) ==
    /\ ~panicked
    /\ hubMu = ""
    /\ roomPc[rn] = "recv"
    /\ roomInbox[rn] # << >>
    /\ roomCur' = [roomCur EXCEPT ![rn] = Head(roomInbox[rn])]
    /\ roomInbox' = [roomInbox EXCEPT ![rn] = Tail(@)]
    /\ processed' = [processed EXCEPT ![rn] = Append(@, Head(roomInbox[rn]))]
    /\ DeliverTo(roomClients[rn], Head(roomInbox[rn]))
    /\ roomPc' = [roomPc EXCEPT ![rn] = "append"]
    /\ UNCHANGED <<roomClients, history, roomLog>>
    /\ UNCHANGED <<hubVars, callVars, connVars, closeVars, logVars>>

\* for msg := range r.Broadcast, and the loop over r.Clients under r.Mu.RLock:
\* one non-blocking send to each member.  The receive is taken together with
\* the loop: until the loop runs, all that the receive changes for any other
\* goroutine is the room left in the channel.
RoomFanout(rn) ==
    /\ ~panicked
    /\ roomPc[rn] = "recv"
    /\ roomInbox[rn] # << >>
    /\ roomCur' = [roomCur EXCEPT ![rn] = Head(roomInbox[rn])]
    /\ roomInbox' = [roomInbox EXCEPT ![rn] = Tail(@)]
    /\ processed' = [processed EXCEPT ![rn] = Append(@, Head(roomInbox[rn]))]
    /\ DeliverTo(FanoutTargets(rn), Head(roomInbox[rn]))
    /\ roomPc' = [roomPc EXCEPT ![rn] = "append"]
    /\ UNCHANGED <<roomClients, history, roomLog>>
    /\ UNCHANGED <<hubVars, callVars, connVars, closeVars, logVars>>

RoomAppendDropped(rn) ==
    /\ ~panicked
    /\ roomPc[rn] = "append"
    /\ roomPc' = [roomPc EXCEPT ![rn] = "recv"]
    /\ roomCur' = [roomCur EXCEPT ![rn] = NoMsg]
    /\ UNCHANGED <<roomClients, roomInbox, roomLog, processed, history>>
    /\ UNCHANGED <<hubVars, callVars, mailVars, connVars, closeVars, logVars>>

\* r.History = append(r.History, msg), with no lock held; the test of
\* len(r.History) > 50 that follows reads what this goroutine just wrote
RoomAppend(rn) ==
    /\ ~panicked
    /\ roomPc[rn] = "append"
    /\ history' = [history EXCEPT ![rn] = Append(@, roomCur[rn])]
    /\ roomPc' = [roomPc EXCEPT ![rn] =
                     IF Len(history[rn]) + 1 > HistoryCap THEN "trim" ELSE "recv"]
    /\ roomCur' = [roomCur EXCEPT ![rn] = NoMsg]
    /\ UNCHANGED <<roomClients, roomInbox, roomLog, processed>>
    /\ UNCHANGED <<hubVars, callVars, mailVars, connVars, closeVars, logVars>>

TrimKeepsOldest(h) == IF Len(h) > HistoryCap THEN SubSeq(h, 1, HistoryCap) ELSE h
TrimHistory(h) ==
    IF Len(h) > HistoryCap THEN SubSeq(h, Len(h) - HistoryCap + 1, Len(h)) ELSE h

\* r.History = r.History[len(r.History)-50:], no lock held
RoomTrim(rn) ==
    /\ ~panicked
    /\ roomPc[rn] = "trim"
    /\ history' = [history EXCEPT ![rn] = TrimHistory(@)]
    /\ roomPc' = [roomPc EXCEPT ![rn] = "recv"]
    /\ UNCHANGED <<roomClients, roomInbox, roomCur, roomLog, processed>>
    /\ UNCHANGED <<hubVars, callVars, mailVars, connVars, closeVars, logVars>>

RoomRun(rn) == RoomFanout(rn) \/ RoomAppend(rn) \/ RoomTrim(rn)

(* ------------------------------------------------------------------ *)
(* Hub                                                                 *)
(* ------------------------------------------------------------------ *)
\* GetRoom under h.mu: the room of that name; a missing one is made by NewRoom,
\* mapped, and its Run started.
GetRoomAlwaysMakes(rn) ==
    /\ hubRooms' = hubRooms \cup {rn}
    /\ roomClients' = [roomClients EXCEPT ![rn] = {}]
    /\ roomInbox' = [roomInbox EXCEPT ![rn] = << >>]
    /\ history' = [history EXCEPT ![rn] = << >>]
    /\ roomPc' = [roomPc EXCEPT ![rn] = "recv"]
    /\ roomsMade' = [roomsMade EXCEPT ![rn] = @ + 1]
    /\ gotRoom' = [gotRoom EXCEPT ![rn] = Append(@, roomsMade[rn] + 1)]

GetRoom(rn) ==
    IF rn \in hubRooms
    THEN /\ UNCHANGED <<hubRooms, roomClients, roomInbox, history, roomPc, roomsMade>>
         /\ gotRoom' = [gotRoom EXCEPT ![rn] = Append(@, roomsMade[rn])]
    ELSE /\ hubRooms' = hubRooms \cup {rn}
         /\ roomClients' = [roomClients EXCEPT ![rn] = {}]
         /\ roomInbox' = [roomInbox EXCEPT ![rn] = << >>]
         /\ history' = [history EXCEPT ![rn] = << >>]
         /\ roomPc' = [roomPc EXCEPT ![rn] = "recv"]
         /\ roomsMade' = [roomsMade EXCEPT ![rn] = @ + 1]
         /\ gotRoom' = [gotRoom EXCEPT ![rn] = Append(@, roomsMade[rn] + 1)]

\* GetClients: the keys of h.Clients, read under h.mu.RLock
GetClients == hubClients

Goto(t, pc) == callPc' = [callPc EXCEPT ![t] = pc]

\* Where a method stands after its first critical section: at its GetRoom
\* call.  h.Rooms never loses a name, so GetRoom of a name that is mapped now
\* only reads h.Rooms and returns what it would return now; that call is then
\* not a step of its own.
AfterLock(c, atGetRoom, pastGetRoom) ==
    IF ConnRoom(c) \in hubRooms THEN pastGetRoom ELSE atGetRoom

Return(t) ==
    /\ callPc' = [callPc EXCEPT ![t] = "idle"]
    /\ callArg' = [callArg EXCEPT ![t] = NoArg]

\* RegisterClient: h.mu.Lock(); h.Clients[client] = true; h.mu.Unlock()
RegLock(t) ==
    /\ ~panicked
    /\ callPc[t] = "reg_lock"
    /\ hubMu = ""
    /\ hubClients' = hubClients \cup {callArg[t].c}
    /\ Goto(t, AfterLock(callArg[t].c, "reg_room", "reg_replay"))
    /\ UNCHANGED <<hubRooms, hubMu, broadcastCh, callArg>>
    /\ UNCHANGED <<roomVars, mailVars, connVars, closeVars, logVars>>

\* RegisterClient: room := h.GetRoom(client.GetRoomName())
RegRoom(t) ==
    /\ ~panicked
    /\ callPc[t] = "reg_room"
    /\ hubMu = ""
    /\ GetRoom(ConnRoom(callArg[t].c))
    /\ Goto(t, "reg_replay")
    /\ UNCHANGED <<hubClients, hubMu, broadcastCh, callArg>>
    /\ UNCHANGED <<roomCur, roomLog, processed>>
    /\ UNCHANGED <<mailVars, connVars, closeVars>>
    /\ UNCHANGED <<regCalls, unregCalls, replayed, timeVars, dmLog, extSent, bcCalls>>

\* RegisterClient: the replay of r.History under r.Mu.RLock.  Room.Run writes
\* History with no lock held, so the slice this loop ranges over is whichever
\* value History has when the loop starts: before an append, between the append
\* and the trim, or after the trim.  The loop is one step: a receive of
\* WriteSocket between two of its sends would only free a slot of the mailbox.
RegReplay(t) ==
    /\ ~panicked
    /\ callPc[t] = "reg_replay"
    /\ LET c == callArg[t].c
           h == history[ConnRoom(c)]
           q == SendAll(privateChan[c], h)
       IN /\ privateChan' = [privateChan EXCEPT ![c] = q]
          /\ delivered' = [delivered EXCEPT ![c] =
                @ \o SubSeq(h, 1, Len(q) - Len(privateChan[c]))]
          /\ replayed' = [replayed EXCEPT ![c] = h]
    /\ Goto(t, "reg_add")
    /\ UNCHANGED <<regCalls, unregCalls, roomsMade, gotRoom, dmLog, extSent, bcCalls, callArg, timeVars>>
    /\ UNCHANGED <<hubVars, roomVars, connVars, closeVars>>

\* RegisterClient, the replay taken in two steps.  First r.Mu.RLock() and the
\* evaluation of the range expression: the loop ranges over the slice
\* r.History is at this moment.  Room.Run writes r.History with no lock, so
\* this read races with its writes; while History has never held more than
\* HistoryCap entries its backing array is the one NewRoom made, and the slice
\* read is History as it was before or after the racing write.
RegReplayLock(t) ==
    /\ ~panicked
    /\ callPc[t] = "reg_replay"
    /\ replayed' = [replayed EXCEPT ![callArg[t].c] = history[ConnRoom(callArg[t].c)]]
    /\ Goto(t, "reg_range")
    /\ UNCHANGED <<regCalls, unregCalls, roomsMade, gotRoom, dmLog, extSent, bcCalls, callArg, timeVars>>
    /\ UNCHANGED <<hubVars, roomVars, mailVars, connVars, closeVars>>

\* Then the sends of the loop, and r.Mu.RUnlock()
RegReplayRange(t) ==
    /\ ~panicked
    /\ callPc[t] = "reg_range"
    /\ LET c == callArg[t].c
           h == replayed[c]
           q == SendAll(privateChan[c], h)
       IN /\ privateChan' = [privateChan EXCEPT ![c] = q]
          /\ delivered' = [delivered EXCEPT ![c] =
                @ \o SubSeq(h, 1, Len(q) - Len(privateChan[c]))]
    /\ Goto(t, "reg_add")
    /\ UNCHANGED callArg
    /\ UNCHANGED <<hubVars, roomVars, connVars, closeVars, logVars>>

\* The goroutines inside the replay loop of room rn, holding r.Mu.RLock
HistoryReaders(rn) ==
    {t \in Threads : callPc[t] = "reg_range" /\ ConnRoom(callArg[t].c) = rn}

\* a RegisterClient that adds the client to the room "default", whatever
\* room the client names
RegAddDefault(t) ==
    /\ ~panicked
    /\ callPc[t] = "reg_add"
    /\ AddClient("default", callArg[t].c)
    /\ Goto(t, "reg_bcast")
    /\ UNCHANGED <<roomInbox, history, roomPc, roomCur, roomLog, processed, callArg>>
    /\ UNCHANGED <<hubVars, mailVars, connVars, closeVars, logVars>>

\* RegisterClient: room.AddClient(client)
RegAdd(t) ==
    /\ ~panicked
    /\ callPc[t] = "reg_add"
    /\ AddClient(ConnRoom(callArg[t].c), callArg[t].c)
    /\ Goto(t, "reg_bcast")
    /\ UNCHANGED <<roomInbox, history, roomPc, roomCur, roomLog, processed, callArg>>
    /\ UNCHANGED <<hubVars, mailVars, connVars, closeVars, logVars>>

\* RegisterClient: room.BroadcastMessage(the system "joined" message)
RegBcast(t) ==
    /\ ~panicked
    /\ callPc[t] = "reg_bcast"
    /\ CanEnqueue(ConnRoom(callArg[t].c))
    /\ Enqueue(ConnRoom(callArg[t].c), JoinedMsg(callArg[t].c, ConnRoom(callArg[t].c)))
    /\ Return(t)
    /\ UNCHANGED <<roomClients, history, roomPc, roomCur, processed>>
    /\ UNCHANGED <<hubVars, mailVars, connVars, closeVars, logVars>>

RegisterClient(t) == RegLock(t) \/ RegRoom(t) \/ RegReplay(t) \/ RegAdd(t) \/ RegBcast(t)

CloseAlways(c) == TRUE
CloseGuard(c) == c \in hubClients

\* UnregisterClient: under h.mu, if the client is in h.Clients, delete it and
\* client.Close()
UnregLock(t) ==
    /\ ~panicked
    /\ callPc[t] = "unreg_lock"
    /\ hubMu = ""
    /\ IF CloseGuard(callArg[t].c)
       THEN /\ hubClients' = hubClients \ {callArg[t].c}
            /\ ClientClose(callArg[t].c)
       ELSE UNCHANGED <<hubClients, closeVars>>
    /\ Goto(t, AfterLock(callArg[t].c, "unreg_room", "unreg_remove"))
    /\ UNCHANGED <<hubRooms, hubMu, broadcastCh, callArg>>
    /\ UNCHANGED <<roomVars, mailVars, connVars, logVars>>

\* UnregisterClient: room := h.GetRoom(client.GetRoomName())
UnregRoom(t) ==
    /\ ~panicked
    /\ callPc[t] = "unreg_room"
    /\ hubMu = ""
    /\ GetRoom(ConnRoom(callArg[t].c))
    /\ Goto(t, "unreg_remove")
    /\ UNCHANGED <<hubClients, hubMu, broadcastCh, callArg>>
    /\ UNCHANGED <<roomCur, roomLog, processed>>
    /\ UNCHANGED <<mailVars, connVars, closeVars>>
    /\ UNCHANGED <<regCalls, unregCalls, replayed, timeVars, dmLog, extSent, bcCalls>>

\* an UnregisterClient that empties the History of a room its last member leaves
UnregRemoveForgets(t) ==
    /\ ~panicked
    /\ callPc[t] = "unreg_remove"
    /\ RemoveClient(ConnRoom(callArg[t].c), callArg[t].c)
    /\ history' = [history EXCEPT ![ConnRoom(callArg[t].c)] =
                      IF Removed(roomClients[ConnRoom(callArg[t].c)], callArg[t].c) = {}
                      THEN << >> ELSE @]
    /\ Goto(t, "unreg_bcast")
    /\ UNCHANGED <<roomInbox, roomPc, roomCur, roomLog, processed, callArg>>
    /\ UNCHANGED <<hubVars, mailVars, connVars, closeVars, logVars>>

\* UnregisterClient: room.RemoveClient(client)
UnregRemove(t) ==
    /\ ~panicked
    /\ callPc[t] = "unreg_remove"
    /\ RemoveClient(ConnRoom(callArg[t].c), callArg[t].c)
    /\ Goto(t, "unreg_bcast")
    /\ UNCHANGED <<roomInbox, history, roomPc, roomCur, roomLog, processed, callArg>>
    /\ UNCHANGED <<hubVars, mailVars, connVars, closeVars, logVars>>

\* UnregisterClient: room.BroadcastMessage(the system "left" message)
UnregBcast(t) ==
    /\ ~panicked
    /\ callPc[t] = "unreg_bcast"
    /\ CanEnqueue(ConnRoom(callArg[t].c))
    /\ Enqueue(ConnRoom(callArg[t].c),
               LeftMsg(callArg[t].c, ConnRoom(callArg[t].c), callArg[t].k))
    /\ Return(t)
    /\ UNCHANGED <<roomClients, history, roomPc, roomCur, processed>>
    /\ UNCHANGED <<hubVars, mailVars, connVars, closeVars, logVars>>

UnregisterClient(t) == UnregLock(t) \/ UnregRoom(t) \/ UnregRemove(t) \/ UnregBcast(t)

\* The connections a direct message goes to: those of h.Clients whose username
\* is msg.To or msg.From.
DirectToRecipientOnly(msg) == {c \in hubClients : ConnUser(c) = msg.To}
DirectTargets(msg) ==
    {c \in hubClients : ConnUser(c) = msg.To \/ ConnUser(c) = msg.From}

\* Broadcast: room, ok := h.Rooms[msg.Room]
HasRoomAlways(rn) == TRUE

HasRoom(rn) == rn \in hubRooms

\* Broadcast: h.mu.Lock(); a direct message is sent to its targets and the
\* method returns; another message goes on to room.BroadcastMessage with h.mu
\* still held, if h.Rooms has msg.Room
BcLock(t) ==
    /\ ~panicked
    /\ callPc[t] = "bc_lock"
    /\ hubMu = ""
    /\ LET msg == callArg[t].m
       IN IF msg.To # Empty
          THEN /\ DeliverTo(DirectTargets(msg), msg)
               /\ dmLog' = Append(dmLog, msg)
               /\ Return(t)
               /\ UNCHANGED hubMu
          ELSE IF HasRoom(msg.Room)
          THEN /\ hubMu' = t
               /\ Goto(t, "bc_send")
               /\ UNCHANGED <<mailVars, dmLog, callArg>>
          ELSE /\ Return(t)
               /\ UNCHANGED <<mailVars, dmLog, hubMu>>
    /\ UNCHANGED <<hubClients, hubRooms, broadcastCh>>
    /\ UNCHANGED <<regCalls, unregCalls, replayed, timeVars, roomsMade, gotRoom, extSent, bcCalls>>
    /\ UNCHANGED <<roomVars, connVars, closeVars>>

\* Broadcast: room.BroadcastMessage(msg), then the deferred h.mu.Unlock()
BcSend(t) ==
    /\ ~panicked
    /\ callPc[t] = "bc_send"
    /\ hubMu = t
    /\ CanEnqueue(callArg[t].m.Room)
    /\ Enqueue(callArg[t].m.Room, callArg[t].m)
    /\ hubMu' = ""
    /\ Return(t)
    /\ UNCHANGED <<hubClients, hubRooms, broadcastCh>>
    /\ UNCHANGED <<roomClients, history, roomPc, roomCur, processed>>
    /\ UNCHANGED <<mailVars, connVars, closeVars, logVars>>

Broadcast(t) == BcLock(t) \/ BcSend(t)

\* Hub.Run: case client := <-h.RegisterCh, the sender being the handler of c
HubRecvRegister(c) ==
    /\ ~panicked
    /\ callPc["hub"] = "idle"
    /\ connPc[c] = "register"
    /\ callPc' = [callPc EXCEPT !["hub"] = "reg_lock"]
    /\ callArg' = [callArg EXCEPT !["hub"] = [c |-> c, m |-> NoMsg, k |-> 0]]
    /\ regCalls' = [regCalls EXCEPT ![c] = @ + 1]
    \* the handler goes on: go client.WriteSocket(); client.ReadSocket(), which
    \* sets the read deadline before its loop
    /\ connPc' = [connPc EXCEPT ![c] = "read"]
    /\ writePc' = [writePc EXCEPT ![c] = "run"]
    /\ readDeadline' = [readDeadline EXCEPT ![c] = clock + ReadTimeout]
    /\ lastRead' = [lastRead EXCEPT ![c] = clock]
    /\ UNCHANGED <<unregCalls, replayed, clock, roomsMade, gotRoom, dmLog, extSent, bcCalls, sent>>
    /\ UNCHANGED <<hubVars, roomVars, mailVars, closeVars>>

\* Hub.Run: case client := <-h.unregisterCh, the sender being the deferred
\* function of ReadSocket of c, which then closes the transport.  That close is
\* taken with the send: it touches nothing but the transport, which from here
\* on is only closed again.
HubRecvUnregister(c) ==
    /\ ~panicked
    /\ callPc["hub"] = "idle"
    /\ connPc[c] = "unreg"
    /\ callPc' = [callPc EXCEPT !["hub"] = "unreg_lock"]
    /\ callArg' = [callArg EXCEPT !["hub"] =
                      [c |-> c, m |-> NoMsg, k |-> unregCalls[c] + 1]]
    /\ unregCalls' = [unregCalls EXCEPT ![c] = @ + 1]
    \* the sender goes on: c.Conn.Close(), and the handler returns
    /\ connCloses' = [connCloses EXCEPT ![c] = @ + 1]
    /\ connPc' = [connPc EXCEPT ![c] = "done"]
    /\ UNCHANGED <<regCalls, replayed, timeVars, roomsMade, gotRoom, dmLog, extSent, bcCalls, writePc, sent>>
    /\ UNCHANGED <<closeCh, panicked, closeCalls>>
    /\ UNCHANGED <<hubVars, roomVars, mailVars>>

\* Hub.Run: case msg := <-h.BroadcastCh
HubRecvBroadcast ==
    /\ ~panicked
    /\ callPc["hub"] = "idle"
    /\ broadcastCh # << >>
    /\ callPc' = [callPc EXCEPT !["hub"] = "bc_lock"]
    /\ callArg' = [callArg EXCEPT !["hub"] = [c |-> "", m |-> Head(broadcastCh), k |-> 0]]
    /\ broadcastCh' = Tail(broadcastCh)
    /\ UNCHANGED <<hubClients, hubRooms, hubMu>>
    /\ UNCHANGED <<roomVars, mailVars, connVars, closeVars, logVars>>


(* ------------------------------------------------------------------ *)
(* The /ws handler and the pumps of a connection                       *)
(* ------------------------------------------------------------------ *)
\* ChatConnectionHandler, up to the send on RegisterCh: the room is looked up
\* (and made if missing), the client is made by NewClient and added to the
\* room's members.  GetRoom and AddClient are taken together: the room that
\* GetRoom may make is seen by other goroutines only through GetRoom itself,
\* which makes it just the same.
HandlerConnect(c) ==
    /\ ~panicked
    /\ connPc[c] = "new"
    /\ hubMu = ""
    /\ IF ConnRoom(c) \in hubRooms
       THEN /\ AddClient(ConnRoom(c), c)
            /\ gotRoom' = [gotRoom EXCEPT ![ConnRoom(c)] = Append(@, roomsMade[ConnRoom(c)])]
            /\ UNCHANGED <<hubRooms, roomInbox, history, roomPc, roomsMade>>
       ELSE /\ hubRooms' = hubRooms \cup {ConnRoom(c)}
            /\ roomsMade' = [roomsMade EXCEPT ![ConnRoom(c)] = @ + 1]
            /\ gotRoom' = [gotRoom EXCEPT ![ConnRoom(c)] = Append(@, roomsMade[ConnRoom(c)] + 1)]
            /\ roomClients' = [roomClients EXCEPT ![ConnRoom(c)] = {c}]
            /\ roomInbox' = [roomInbox EXCEPT ![ConnRoom(c)] = << >>]
            /\ history' = [history EXCEPT ![ConnRoom(c)] = << >>]
            /\ roomPc' = [roomPc EXCEPT ![ConnRoom(c)] = "recv"]
    /\ connPc' = [connPc EXCEPT ![c] = "register"]
    /\ UNCHANGED <<hubClients, hubMu, broadcastCh>>
    /\ UNCHANGED <<roomCur, roomLog, processed, writePc, sent>>
    /\ UNCHANGED <<callVars, mailVars, closeVars>>
    /\ UNCHANGED <<regCalls, unregCalls, replayed, timeVars, dmLog, extSent, bcCalls>>

\* The frames a peer sends: {type, text, to}
Frame(type, text, to) == [Type |-> type, Text |-> text, To |-> to]

TotalSent == sent["c1"] + sent["c2"] + sent["c3"] + sent["c4"]

\* ReadSocket: the message built from a frame
InboundMsg(c, f) ==
    Msg(TrimSpace(f.Type), ConnUser(c), TrimSpace(f.To), TrimSpace(f.Text),
        ConnRoom(c), c, sent[c] + 1)

\* an inline loop that sends to the connections of the recipient alone
InlineToRecipientOnly(msg) == {x \in hubClients : ConnUser(x) = msg.To}

\* ReadSocket: the connections the inline loop over c.Hub.Clients sends to
InlineTargets(msg) ==
    {x \in hubClients : ConnUser(x) = msg.To \/ ConnUser(x) = msg.From}

\* ReadSocket: if msg.To != ""
IsDirectByType(msg) == msg.Type = <<"private">>

IsDirectNever(msg) == FALSE

IsDirect(msg) == msg.To # Empty

\* ReadSocket: ReadJSON returned a frame.  A blank text is skipped; a message
\* with a recipient is sent, under c.Hub.mu.RLock, to the clients of that name
\* and of the sender's name; any other goes to c.Room.BroadcastMessage.
ReadFrame(c, f) ==
    /\ ~panicked
    /\ connPc[c] = "read"
    /\ connCloses[c] = 0
    /\ TotalSent < MaxFrames
    /\ LET msg == InboundMsg(c, f)
       IN IF msg.Text = Empty
          THEN /\ sent' = [sent EXCEPT ![c] = @ + 1]
               /\ UNCHANGED <<roomVars, mailVars, dmLog>>
          ELSE IF IsDirect(msg)
          THEN /\ hubMu = ""
               /\ DeliverTo(InlineTargets(msg), [msg EXCEPT !.Type = <<"private">>])
               /\ dmLog' = Append(dmLog, [msg EXCEPT !.Type = <<"private">>])
               /\ sent' = [sent EXCEPT ![c] = @ + 1]
               /\ UNCHANGED roomVars
          ELSE /\ CanEnqueue(ConnRoom(c))
               /\ Enqueue(ConnRoom(c), msg)
               /\ sent' = [sent EXCEPT ![c] = @ + 1]
               /\ UNCHANGED <<roomClients, history, roomPc, roomCur, processed>>
               /\ UNCHANGED <<mailVars, dmLog>>
    /\ lastRead' = [lastRead EXCEPT ![c] = clock]
    /\ UNCHANGED <<connPc, writePc, clock, readDeadline>>
    /\ UNCHANGED <<regCalls, unregCalls, replayed, roomsMade, gotRoom, extSent, bcCalls>>
    /\ UNCHANGED <<hubVars, callVars, closeVars>>

\* ReadSocket: ReadJSON returned an error (the peer left, a malformed or
\* oversized frame, the read deadline, a closed transport): break
ReadError(c) ==
    /\ ~panicked
    /\ connPc[c] = "read"
    /\ Cardinality({x \in Conns : connPc[x] \in {"unreg", "done"}}) < MaxLeaves
    /\ connPc' = [connPc EXCEPT ![c] = "unreg"]
    /\ UNCHANGED <<writePc, sent>>
    /\ UNCHANGED <<hubVars, callVars, roomVars, mailVars, closeVars, logVars>>

\* ReadSocket: ReadJSON returned its error because the read deadline passed
ReadTimeoutError(c) == clock >= readDeadline[c] /\ ReadError(c)

\* the pong handler set by ReadSocket, run inside ReadJSON when the peer's
\* pong arrives: SetReadDeadline(now + 60 s)
PongHandler(c) ==
    /\ ~panicked
    /\ connPc[c] = "read"
    /\ connCloses[c] = 0
    /\ clock < readDeadline[c]
    /\ readDeadline' = [readDeadline EXCEPT ![c] = clock + ReadTimeout]
    /\ lastRead' = [lastRead EXCEPT ![c] = clock]
    /\ UNCHANGED <<clock, regCalls, unregCalls, replayed, roomsMade, gotRoom, dmLog, extSent, bcCalls>>
    /\ UNCHANGED <<hubVars, callVars, roomVars, mailVars, connVars, closeVars>>

\* a second passes
Tick ==
    /\ clock < MaxClock
    /\ clock' = clock + 1
    /\ UNCHANGED <<readDeadline, lastRead, regCalls, unregCalls, replayed, roomsMade, gotRoom, dmLog, extSent, bcCalls>>
    /\ UNCHANGED <<hubVars, callVars, roomVars, mailVars, connVars, closeVars>>

\* ReadSocket: ReadJSON on a transport that has been closed returns an error
ReadErrorClosed(c) == connCloses[c] > 0 /\ ReadError(c)

\* a return of WriteSocket that leaves the transport open
ConnCloseSkipped(c) == UNCHANGED connCloses

\* c.Conn.Close()
ConnClose(c) == connCloses' = [connCloses EXCEPT ![c] = @ + 1]

\* WriteSocket: case msg := <-c.privateChan, then WriteJSON; an error returns,
\* and the deferred c.Conn.Close() runs
WriteMsg(c, ok) ==
    /\ ~panicked
    /\ writePc[c] = "run"
    /\ privateChan[c] # << >>
    /\ privateChan' = [privateChan EXCEPT ![c] = Tail(@)]
    /\ IF ok /\ connCloses[c] = 0
       THEN UNCHANGED <<writePc, connCloses>>
       ELSE /\ ConnClose(c)
            /\ writePc' = [writePc EXCEPT ![c] = "done"]
    /\ UNCHANGED <<delivered, connPc, sent, closeCh, panicked, closeCalls>>
    /\ UNCHANGED <<hubVars, callVars, roomVars, logVars>>

\* WriteSocket: case <-ticker.C, then the ping; an error returns, and the
\* deferred c.Conn.Close() runs
WritePing(c, ok) ==
    /\ ~panicked
    /\ writePc[c] = "run"
    /\ IF ok /\ connCloses[c] = 0
       THEN UNCHANGED <<writePc, connCloses>>
       ELSE /\ ConnClose(c)
            /\ writePc' = [writePc EXCEPT ![c] = "done"]
    /\ UNCHANGED <<connPc, sent, closeCh, panicked, closeCalls>>
    /\ UNCHANGED <<hubVars, callVars, roomVars, mailVars, logVars>>

\* WriteSocket: case <-c.CloseCh returns, and the deferred c.Conn.Close() runs
WriteClosed(c) ==
    /\ ~panicked
    /\ writePc[c] = "run"
    /\ closeCh[c]
    /\ ConnClose(c)
    /\ writePc' = [writePc EXCEPT ![c] = "done"]
    /\ UNCHANGED <<connPc, sent, closeCh, panicked, closeCalls>>
    /\ UNCHANGED <<hubVars, callVars, roomVars, mailVars, logVars>>

(* ------------------------------------------------------------------ *)
(* Test drivers (package chat tests)                                   *)
(* ------------------------------------------------------------------ *)
\* room := hub.GetRoom(name)
TestGetRoom(rn) ==
    /\ ~panicked
    /\ rn \notin hubRooms
    /\ hubMu = ""
    /\ GetRoom(rn)
    /\ UNCHANGED <<hubClients, hubMu, broadcastCh>>
    /\ UNCHANGED <<roomCur, roomLog, processed>>
    /\ UNCHANGED <<callVars, mailVars, connVars, closeVars>>
    /\ UNCHANGED <<regCalls, unregCalls, replayed, timeVars, dmLog, extSent, bcCalls>>

\* room.BroadcastMessage(chat.ChatMessage{Text: "msg"})
TestRoomBroadcast(rn) ==
    /\ ~panicked
    /\ rn \in hubRooms
    /\ CanEnqueue(rn)
    /\ Enqueue(rn, Msg(Empty, Empty, Empty, <<"msg">>, "", "test", extSent + 1))
    /\ extSent' = extSent + 1
    /\ UNCHANGED <<roomClients, history, roomPc, roomCur, processed>>
    /\ UNCHANGED <<regCalls, unregCalls, replayed, timeVars, roomsMade, gotRoom, dmLog, bcCalls>>
    /\ UNCHANGED <<hubVars, callVars, mailVars, connVars, closeVars>>

\* hub.RegisterCh <- client, received by Hub.Run
TestRegisterCh(c) ==
    /\ ~panicked
    /\ callPc["hub"] = "idle"
    /\ regCalls[c] = 0
    /\ callPc' = [callPc EXCEPT !["hub"] = "reg_lock"]
    /\ callArg' = [callArg EXCEPT !["hub"] = [c |-> c, m |-> NoMsg, k |-> 0]]
    /\ regCalls' = [regCalls EXCEPT ![c] = @ + 1]
    /\ UNCHANGED <<unregCalls, replayed, timeVars, roomsMade, gotRoom, dmLog, extSent, bcCalls>>
    /\ UNCHANGED <<hubVars, roomVars, mailVars, connVars, closeVars>>

\* hub.unregisterCh <- client, received by Hub.Run
TestUnregisterCh(c) ==
    /\ ~panicked
    /\ callPc["hub"] = "idle"
    /\ unregCalls[c] < MaxUnregs
    /\ callPc' = [callPc EXCEPT !["hub"] = "unreg_lock"]
    /\ callArg' = [callArg EXCEPT !["hub"] =
                      [c |-> c, m |-> NoMsg, k |-> unregCalls[c] + 1]]
    /\ unregCalls' = [unregCalls EXCEPT ![c] = @ + 1]
    /\ UNCHANGED <<regCalls, replayed, timeVars, roomsMade, gotRoom, dmLog, extSent, bcCalls>>
    /\ UNCHANGED <<hubVars, roomVars, mailVars, connVars, closeVars>>

\* hub.RegisterClient(client), called by goroutine t
TestCallRegister(t, c) ==
    /\ ~panicked
    /\ callPc[t] = "idle"
    /\ regCalls[c] = 0
    /\ callPc' = [callPc EXCEPT ![t] = "reg_lock"]
    /\ callArg' = [callArg EXCEPT ![t] = [c |-> c, m |-> NoMsg, k |-> 0]]
    /\ regCalls' = [regCalls EXCEPT ![c] = @ + 1]
    /\ UNCHANGED <<unregCalls, replayed, timeVars, roomsMade, gotRoom, dmLog, extSent, bcCalls>>
    /\ UNCHANGED <<hubVars, roomVars, mailVars, connVars, closeVars>>

\* hub.UnregisterClient(client), called by goroutine t
TestCallUnregister(t, c) ==
    /\ ~panicked
    /\ callPc[t] = "idle"
    /\ unregCalls[c] < MaxUnregs
    /\ callPc' = [callPc EXCEPT ![t] = "unreg_lock"]
    /\ callArg' = [callArg EXCEPT ![t] =
                      [c |-> c, m |-> NoMsg, k |-> unregCalls[c] + 1]]
    /\ unregCalls' = [unregCalls EXCEPT ![c] = @ + 1]
    /\ UNCHANGED <<regCalls, replayed, timeVars, roomsMade, gotRoom, dmLog, extSent, bcCalls>>
    /\ UNCHANGED <<hubVars, roomVars, mailVars, connVars, closeVars>>

\* The messages the tests hand to the hub: a direct one, one for a room.
TestMsg(from, to, room, k) == Msg(Empty, from, to, <<"secret">>, room, "test", k)

\* hub.Broadcast(msg), called by goroutine t
TestCallBroadcast(t, from, to, room) ==
    /\ ~panicked
    /\ callPc[t] = "idle"
    /\ bcCalls < MaxBroadcasts
    /\ callPc' = [callPc EXCEPT ![t] = "bc_lock"]
    /\ callArg' = [callArg EXCEPT ![t] =
                      [c |-> "", m |-> TestMsg(from, to, room, bcCalls + 1), k |-> 0]]
    /\ bcCalls' = bcCalls + 1
    /\ UNCHANGED <<regCalls, unregCalls, replayed, timeVars, roomsMade, gotRoom, dmLog, extSent>>
    /\ UNCHANGED <<hubVars, roomVars, mailVars, connVars, closeVars>>

\* hub.BroadcastCh <- msg
TestBroadcastCh(from, to, room) ==
    /\ ~panicked
    /\ bcCalls < MaxBroadcasts
    /\ Len(broadcastCh) < BroadcastChCap
    /\ broadcastCh' = Append(broadcastCh, TestMsg(from, to, room, bcCalls + 1))
    /\ bcCalls' = bcCalls + 1
    /\ UNCHANGED <<hubClients, hubRooms, hubMu>>
    /\ UNCHANGED <<regCalls, unregCalls, replayed, timeVars, roomsMade, gotRoom, dmLog, extSent>>
    /\ UNCHANGED <<callVars, roomVars, mailVars, connVars, closeVars>>

\* client.SendMessage(chat.ChatMessage{Text: "hello"}), called by a test
TestSendMessage(c) ==
    /\ ~panicked
    /\ extSent < MaxMailMsgs
    /\ DeliverTo({c}, Msg(Empty, Empty, Empty, <<"hello">>, "", "test", extSent + 1))
    /\ extSent' = extSent + 1
    /\ UNCHANGED <<regCalls, unregCalls, replayed, timeVars, roomsMade, gotRoom, dmLog, bcCalls>>
    /\ UNCHANGED <<hubVars, callVars, roomVars, connVars, closeVars>>

\* msg := <-client.ReceivePrivateChan(), in a test
TestReceive(c) ==
    /\ ~panicked
    /\ privateChan[c] # << >>
    /\ privateChan' = [privateChan EXCEPT ![c] = Tail(@)]
    /\ UNCHANGED delivered
    /\ UNCHANGED <<hubVars, callVars, roomVars, connVars, closeVars, logVars>>

\* room.AddClient(client), called by a test
TestAddClient(rn, c) ==
    /\ ~panicked
    /\ rn \in hubRooms
    /\ AddClient(rn, c)
    /\ UNCHANGED <<roomInbox, history, roomPc, roomCur, roomLog, processed>>
    /\ UNCHANGED <<hubVars, callVars, mailVars, connVars, closeVars, logVars>>

\* room.RemoveClient(client), called by a test
TestRemoveClient(rn, c) ==
    /\ ~panicked
    /\ rn \in hubRooms
    /\ RemoveClient(rn, c)
    /\ UNCHANGED <<roomInbox, history, roomPc, roomCur, roomLog, processed>>
    /\ UNCHANGED <<hubVars, callVars, mailVars, connVars, closeVars, logVars>>

\* client.Close(), called by a test
TestClientClose(c) ==
    /\ ~panicked
    /\ closeCalls[c] < MaxCloses
    /\ ClientClose(c)
    /\ UNCHANGED <<hubVars, callVars, roomVars, mailVars, connVars, logVars>>

(* ------------------------------------------------------------------ *)
(* Specifications                                                      *)
(* ------------------------------------------------------------------ *)
\* The state after NewHub (app.New): no connection, no room.
Init ==
    /\ hubClients = {}
    /\ hubRooms = {}
    /\ hubMu = ""
    /\ broadcastCh = << >>
    /\ callPc = [t \in Threads |-> "idle"]
    /\ callArg = [t \in Threads |-> NoArg]
    /\ roomClients = [rn \in RoomNames |-> {}]
    /\ roomInbox = [rn \in RoomNames |-> << >>]
    /\ history = [rn \in RoomNames |-> << >>]
    /\ roomPc = [rn \in RoomNames |-> "none"]
    /\ roomCur = [rn \in RoomNames |-> NoMsg]
    /\ privateChan = [c \in Conns |-> << >>]
    /\ connPc = [c \in Conns |-> "new"]
    /\ writePc = [c \in Conns |-> "none"]
    /\ sent = [c \in Conns |-> 0]
    /\ closeCh = [c \in Conns |-> FALSE]
    /\ connCloses = [c \in Conns |-> 0]
    /\ panicked = FALSE
    /\ closeCalls = [c \in Conns |-> 0]
    /\ roomLog = [rn \in RoomNames |-> << >>]
    /\ processed = [rn \in RoomNames |-> << >>]
    /\ delivered = [c \in Conns |-> << >>]
    /\ regCalls = [c \in Conns |-> 0]
    /\ unregCalls = [c \in Conns |-> 0]
    /\ replayed = [c \in Conns |-> << >>]
    /\ roomsMade = [rn \in RoomNames |-> 0]
    /\ gotRoom = [rn \in RoomNames |-> << >>]
    /\ dmLog = << >>
    /\ extSent = 0
    /\ bcCalls = 0
    /\ clock = 0
    /\ readDeadline = [c \in Conns |-> 0]
    /\ lastRead = [c \in Conns |-> 0]

\* TestRoom_HistoryLimit: one room, its loop, and a driver that floods it
NextHistory ==
    \/ TestGetRoom("lobby")
    \/ extSent < MaxHistMsgs /\ TestRoomBroadcast("lobby")
    \/ RoomRun("lobby")

SpecHistory == Init /\ [][NextHistory]_vars

\* A room that has a history when a client registers: the driver's messages
\* outnumber the client's mailbox.
NextReplay ==
    \/ TestGetRoom("lobby")
    \/ extSent < MaxReplayMsgs /\ TestRoomBroadcast("lobby")
    \/ RoomFanout("lobby") \/ RoomAppend("lobby")
    \/ TestRegisterCh("c1")
    \/ RegisterClient("hub")

SpecReplay == Init /\ [][NextReplay]_vars

RoomFrames ==
    {Frame(<<"message">>, <<SP, "hi">>, Empty),
     Frame(<<"message">>, <<SP>>, Empty),
     Frame(<<"message">>, Empty, Empty)}

DirectFrames ==
    {Frame(<<"message">>, <<"hi", SP>>, <<SP, "bob">>),
     Frame(<<"private">>, <<"hi">>, <<"zed">>)}

BlankDirectFrame == Frame(<<"private">>, <<SP, SP>>, <<"bob">>)

HubRegister == RegLock("hub") \/ RegReplay("hub") \/ RegAdd("hub") \/ RegBcast("hub")
HubUnregister == UnregLock("hub") \/ UnregRemove("hub") \/ UnregBcast("hub")

\* The server with two connections to the lobby.
Next ==
    \/ \E c \in {"c1", "c2"} :
          \/ HandlerConnect(c)
          \/ HubRecvRegister(c)
          \/ \E f \in RoomFrames \cup DirectFrames \cup {BlankDirectFrame} : ReadFrame(c, f)
          \/ ReadError(c)
          \/ HubRecvUnregister(c)
    \/ HubRegister
    \/ HubUnregister
    \/ RoomFanout("lobby") \/ RoomAppend("lobby")

Spec == Init /\ [][Next]_vars

\* The frames read and the messages produced, together, stay within a budget.
SendBudget == TotalSent + bcCalls < MaxSends

\* The server with a connection to each of two rooms, and a producer on
\* Hub.BroadcastCh.
NextRooms ==
    \/ \E c \in {"c1", "c3"} :
          \/ HandlerConnect(c)
          \/ HubRecvRegister(c)
          \/ \E f \in RoomFrames : SendBudget /\ ReadFrame(c, f)
          \/ ReadError(c)
          \/ HubRecvUnregister(c)
    \/ HubRegister
    \/ HubUnregister
    \/ \E rn \in RoomNames : SendBudget /\ TestBroadcastCh(Alice, Empty, rn)
    \/ HubRecvBroadcast
    \/ Broadcast("hub")
    \/ \E rn \in RoomNames : RoomFanout(rn) \/ RoomAppend(rn)

SpecRooms == Init /\ [][NextRooms]_vars

\* The server with four connections that stay, two of them of one user.  One
\* of them sends direct messages, and a producer puts direct messages on
\* Hub.BroadcastCh.
NextDirect ==
    \/ \E c \in Conns : HandlerConnect(c) \/ HubRecvRegister(c)
    \/ \E f \in DirectFrames : SendBudget /\ ReadFrame("c1", f)
    \/ HubRegister
    \/ SendBudget /\ TestBroadcastCh(Alice, Bob, "")
    \/ HubRecvBroadcast
    \/ BcLock("hub")
    \/ \E rn \in RoomNames : RoomFanout(rn) \/ RoomAppend(rn)

SpecDirect == Init /\ [][NextDirect]_vars

\* The exported API called from two goroutines beside Hub.Run, as the tests of
\* package chat do, on a client of the lobby.
NextApi ==
    \/ TestRegisterCh("c1")
    \/ TestUnregisterCh("c1")
    \/ \E t \in {"t1", "t2"} : TestCallRegister(t, "c1") \/ TestCallUnregister(t, "c1")
    \/ \E t \in Threads : RegisterClient(t) \/ UnregisterClient(t)
    \/ RoomFanout("lobby") \/ RoomAppend("lobby")

SpecApi == Init /\ [][NextApi]_vars

\* Client.Close called by a test, beside UnregisterClient.
NextClose ==
    \/ TestGetRoom("lobby")
    \/ TestClientClose("c1")
    \/ TestRegisterCh("c1")
    \/ TestUnregisterCh("c1")
    \/ \E t \in {"t1"} : TestCallUnregister(t, "c1")
    \/ HubRegister
    \/ \E t \in {"hub", "t1"} : UnregLock(t) \/ UnregRemove(t) \/ UnregBcast(t)
    \/ RoomFanout("lobby") \/ RoomAppend("lobby")

SpecClose == Init /\ [][NextClose]_vars

\* Frames whose type disagrees with their recipient field.
TypedFrames ==
    {Frame(<<"private">>, <<"hi">>, Empty),
     Frame(<<"private">>, <<"hi">>, <<SP>>)}

RoutingFrames == RoomFrames \cup DirectFrames \cup TypedFrames

\* The server with a connection to each of two rooms that stay and send
\* frames of every kind.
NextRouting ==
    \/ \E c \in {"c1", "c3"} :
          \/ HandlerConnect(c)
          \/ HubRecvRegister(c)
          \/ \E f \in RoutingFrames : ReadFrame(c, f)
    \/ HubRegister
    \/ \E rn \in RoomNames : RoomFanout(rn) \/ RoomAppend(rn)

SpecRouting == Init /\ [][NextRouting]_vars

\* TestClient_SendAndReceive: a client of a room, a sender that outruns the
\* mailbox, and a receiver.
NextMailbox ==
    \/ TestGetRoom("lobby")
    \/ TestSendMessage("c1")
    \/ TestReceive("c1")

SpecMailbox == Init /\ [][NextMailbox]_vars

\* TestRoom_AddRemoveClient: rooms whose members a test adds and removes in
\* any order, a client again when it is a member, or when it is none.
NextMembers ==
    \E rn \in RoomNames :
       \/ TestGetRoom(rn)
       \/ \E c \in Conns : TestAddClient(rn, c) \/ TestRemoveClient(rn, c)

SpecMembers == Init /\ [][NextMembers]_vars

\* TestRoom_BroadcastMessage: a room with a member from the start whose
\* mailbox nobody drains, a second member that joins at any moment, and a
\* driver that sends more messages than a mailbox holds.
NextFanout ==
    \/ TestGetRoom("lobby")
    \/ extSent = 0 /\ "c1" \notin roomClients["lobby"] /\ TestAddClient("lobby", "c1")
    \/ "c2" \notin roomClients["lobby"] /\ TestAddClient("lobby", "c2")
    \/ extSent < MaxFanMsgs /\ TestRoomBroadcast("lobby")
    \/ RoomFanout("lobby") \/ RoomAppend("lobby")

SpecFanout == Init /\ [][NextFanout]_vars

\* Room.Run is a goroutine of its own: the scheduler runs it when it can take
\* a step.
FairSpecFanout ==
    SpecFanout /\ WF_vars(RoomFanout("lobby")) /\ WF_vars(RoomAppend("lobby"))

\* The same room with a receiver on the first member's mailbox, so that
\* messages are dropped and accepted in turn.
NextFifo ==
    \/ NextFanout
    \/ TestReceive("c1")

SpecFifo == Init /\ [][NextFifo]_vars

\* A room whose loop is slow: it takes a message out of its channel only when
\* the channel is full or the driver has sent all its messages.  Beside it the
\* hub handles a message for that room, put on BroadcastCh when the room's
\* channel was full, and the handler of a connection to the other room starts.
NextSlowRoom ==
    \/ TestGetRoom("lobby")
    \/ extSent < MaxFloodMsgs /\ TestRoomBroadcast("lobby")
    \/ (~CanEnqueue("lobby") \/ extSent = MaxFloodMsgs) /\ RoomFanout("lobby")
    \/ RoomAppend("lobby") \/ RoomTrim("lobby")
    \/ ~CanEnqueue("lobby") /\ TestBroadcastCh(Alice, Empty, "lobby")
    \/ HubRecvBroadcast
    \/ Broadcast("hub")
    \/ HandlerConnect("c3")

SpecSlowRoom == Init /\ [][NextSlowRoom]_vars

StalledFrames ==
    {Frame(<<"message">>, <<"hi">>, Empty),
     Frame(<<"private">>, <<"hi">>, Alice)}

\* The server with a connection c1 whose WriteSocket never takes a message
\* out of the mailbox (its peer does not read), the mailbox having been filled
\* before anything else happens, and a connection c2 that joins, sends and
\* leaves, beside a producer on Hub.BroadcastCh.
Stalled == ~Accepts(privateChan["c1"])

NextStalled ==
    \/ ~Stalled /\ TestSendMessage("c1")
    \/ \E c \in {"c1", "c2"} : Stalled /\ (HandlerConnect(c) \/ HubRecvRegister(c))
    \/ \E f \in StalledFrames : Stalled /\ SendBudget /\ ReadFrame("c2", f)
    \/ Stalled /\ ReadError("c2")
    \/ Stalled /\ HubRecvUnregister("c2")
    \/ Stalled /\ HubRegister
    \/ Stalled /\ HubUnregister
    \/ Stalled /\ SendBudget /\ TestBroadcastCh(Bob, Alice, "")
    \/ Stalled /\ HubRecvBroadcast
    \/ Stalled /\ Broadcast("hub")
    \/ Stalled /\ (RoomFanout("lobby") \/ RoomAppend("lobby"))

SpecStalled == Init /\ [][NextStalled]_vars

\* Hub.Run and Room.Run are goroutines of their own, and so is the handler
\* that waits in its deferred send on unregisterCh.
FairSpecStalled ==
    /\ SpecStalled
    /\ WF_vars(HubRegister) /\ WF_vars(HubUnregister) /\ WF_vars(Broadcast("hub"))
    /\ WF_vars(HubRecvBroadcast) /\ WF_vars(HubRecvUnregister("c2"))
    /\ WF_vars(RoomFanout("lobby")) /\ WF_vars(RoomAppend("lobby"))

\* A room that receives messages while a client registers, the replay loop
\* of RegisterClient taken in its two steps.
NextRace ==
    \/ TestGetRoom("lobby")
    \/ extSent < MaxRaceMsgs /\ TestRoomBroadcast("lobby")
    \/ RoomFanout("lobby") \/ RoomAppend("lobby")
    \/ TestRegisterCh("c1")
    \/ RegLock("hub") \/ RegRoom("hub")
    \/ RegReplayLock("hub") \/ RegReplayRange("hub")
    \/ RegAdd("hub") \/ RegBcast("hub")

SpecRace == Init /\ [][NextRace]_vars

\* Hub.Run, Room.Run and WriteSocket have nothing left to do, and ReadSocket
\* waits in ReadJSON.
Quiet ==
    /\ callPc["hub"] = "idle"
    /\ roomPc["lobby"] = "recv" /\ roomInbox["lobby"] = << >>
    /\ privateChan["c1"] = << >>
    /\ connPc["c1"] = "read"

\* A connection that joins the lobby, sends, and leaves, and another that
\* joins at any moment, also after the lobby has lost its last member.
NextPersist ==
    \/ \E c \in {"c1", "c2"} : HandlerConnect(c) \/ HubRecvRegister(c)
    \/ ReadFrame("c1", Frame(<<"message">>, <<"hi">>, Empty))
    \/ ReadError("c1")
    \/ HubRecvUnregister("c1")
    \/ HubRegister
    \/ HubUnregister
    \/ RoomFanout("lobby") \/ RoomAppend("lobby")

SpecPersist == Init /\ [][NextPersist]_vars

\* Room.Run of the lobby, slow: it takes a message out only when the channel
\* is full
SlowFanout == ~CanEnqueue("lobby") /\ RoomFanout("lobby")

\* A lobby whose channel a driver fills while Room.Run is slow; when it is
\* full a connection arrives, sends one direct frame and leaves, and one
\* message for the lobby is put on Hub.BroadcastCh.
NextBlocked ==
    \/ TestGetRoom("lobby")
    \/ extSent < MaxFloodMsgs /\ TestRoomBroadcast("lobby")
    \/ SlowFanout
    \/ RoomAppend("lobby")
    \/ ~CanEnqueue("lobby") /\ HandlerConnect("c1")
    \/ HubRecvRegister("c1")
    \/ sent["c1"] = 0 /\ ReadFrame("c1", Frame(<<"private">>, <<"hi">>, Bob))
    \/ ReadError("c1")
    \/ HubRecvUnregister("c1")
    \/ HubRegister
    \/ HubUnregister
    \/ bcCalls = 0 /\ ~CanEnqueue("lobby") /\ TestBroadcastCh(Alice, Empty, "lobby")
    \/ HubRecvBroadcast
    \/ Broadcast("hub")

SpecBlocked == Init /\ [][NextBlocked]_vars

\* Hub.Run and Room.Run are goroutines that run whenever they can, and a
\* select of Hub.Run with a sender waiting chooses that case sooner or later.
FairSpecBlocked ==
    /\ SpecBlocked
    /\ WF_vars(HubRegister) /\ WF_vars(HubUnregister) /\ WF_vars(Broadcast("hub"))
    /\ WF_vars(SlowFanout) /\ WF_vars(RoomAppend("lobby"))
    /\ SF_vars(HubRecvRegister("c1")) /\ SF_vars(HubRecvUnregister("c1"))
    /\ SF_vars(HubRecvBroadcast)

\* Both routes of a direct message: three connections, two of them of one
\* user, that register at any moment; one of them reads one direct frame, and
\* a producer puts one direct message on Hub.BroadcastCh.
NextPaths ==
    \/ \E c \in {"c1", "c2", "c4"} : HandlerConnect(c) \/ HubRecvRegister(c)
    \/ \E to \in {Bob, Zed} :
          sent["c1"] = 0 /\ ReadFrame("c1", Frame(<<"private">>, <<"hi">>, to))
    \/ HubRegister
    \/ \E to \in {Bob, Zed} : bcCalls = 0 /\ TestBroadcastCh(Alice, to, "")
    \/ HubRecvBroadcast
    \/ BcLock("hub")
    \/ \E rn \in RoomNames : RoomFanout(rn) \/ RoomAppend(rn)

SpecPaths == Init /\ [][NextPaths]_vars

\* One connection and the clock: the peer sends frames before the deadline
\* and answers the pings of WriteSocket's ticker, or does not.  The steps of
\* the goroutines take no time: a second passes only when they are done.
NextTimed ==
    \/ HandlerConnect("c1")
    \/ HubRecvRegister("c1")
    \/ HubRegister
    \/ clock < readDeadline["c1"] /\ ReadFrame("c1", Frame(<<"message">>, <<"hi">>, Empty))
    \/ clock > 0 /\ clock % PingPeriod = 0 /\ WritePing("c1", TRUE)
    \/ clock > 0 /\ clock % PingPeriod = 0 /\ PongHandler("c1")
    \/ ReadTimeoutError("c1")
    \/ HubRecvUnregister("c1")
    \/ HubUnregister
    \/ WriteMsg("c1", TRUE)
    \/ WriteClosed("c1")
    \/ RoomFanout("lobby") \/ RoomAppend("lobby")
    \/ Quiet /\ Tick

SpecTimed == Init /\ [][NextTimed]_vars

\* One connection with both its pumps.
NextPumps ==
    \/ HandlerConnect("c1")
    \/ HubRecvRegister("c1")
    \/ \E f \in RoomFrames \cup DirectFrames : ReadFrame("c1", f)
    \/ ReadError("c1")
    \/ HubRecvUnregister("c1")
    \/ \E ok \in BOOLEAN : WriteMsg("c1", ok)
    \/ \E ok \in BOOLEAN : WritePing("c1", ok)
    \/ WriteClosed("c1")
    \/ HubRegister
    \/ HubUnregister
    \/ RoomFanout("lobby") \/ RoomAppend("lobby")

SpecPumps == Init /\ [][NextPumps]_vars

\* Hub.Run and Room.Run are goroutines that run whenever they can; the
\* deferred send of ReadSocket is taken as soon as Hub.Run receives; a select
\* of WriteSocket with CloseCh closed chooses that case sooner or later.
FairSpecPumps ==
    /\ SpecPumps
    /\ WF_vars(HubRegister) /\ WF_vars(HubUnregister)
    /\ WF_vars(HubRecvUnregister("c1"))
    /\ WF_vars(RoomFanout("lobby")) /\ WF_vars(RoomAppend("lobby"))
    /\ WF_vars(WriteClosed("c1"))

\* And a ReadJSON on a closed transport returns.
FairSpecWriteFail == FairSpecPumps /\ WF_vars(ReadErrorClosed("c1"))

(* ------------------------------------------------------------------ *)
(* Properties                                                          *)
(* ------------------------------------------------------------------ *)
Range(s) == {s[i] : i \in 1..Len(s)}

LastN(s, k) == IF Len(s) > k THEN SubSeq(s, Len(s) - k + 1, Len(s)) ELSE s

\* C1: in every reachable state of a room, however Room.Run interleaves with
\* other goroutines, History holds at most 50 messages.  (Room.Run appends the
\* 51st entry and only then cuts the slice, with no lock held in between.)
C1_HistoryAtMostFifty == \A rn \in RoomNames : Len(history[rn]) <= HistoryCap

\* C1, the state refuting it: Room.Run stands between its append and its cut,
\* and History holds 51 messages.
C1_HistoryHoldsFiftyOne ==
    roomPc["lobby"] = "trim" /\ Len(history["lobby"]) = HistoryCap + 1

\* C2: once Room.Run has dequeued all N messages enqueued to a room, History is
\* the last min(N, 50) of them, in the order they were dequeued.
C2_HistoryIsLastFifty ==
    \A rn \in RoomNames :
        (roomPc[rn] = "recv" /\ roomInbox[rn] = << >>) =>
            /\ processed[rn] = roomLog[rn]
            /\ history[rn] = LastN(processed[rn], HistoryCap)
            /\ Len(history[rn]) = IF Len(roomLog[rn]) < HistoryCap
                                  THEN Len(roomLog[rn]) ELSE HistoryCap

\* C2, its case: more than 50 messages were enqueued and all were dequeued.
C2_AllDequeuedBeyondFifty ==
    /\ roomPc["lobby"] = "recv"
    /\ roomInbox["lobby"] = << >>
    /\ Len(roomLog["lobby"]) > HistoryCap

\* C3: a message broadcast to room A (sent on A's channel by ReadSocket, by
\* Hub.Broadcast, or as a join or leave message) is never enqueued to the
\* mailbox of a connection whose room is not A.
C3_RoomIsolation ==
    \A a \in RoomNames : \A c \in Conns :
        ConnRoom(c) # a => Range(delivered[c]) \cap Range(roomLog[a]) = {}

\* C3, its case: the lobby's loop has just fanned out a message that came
\* through Hub.Broadcast, to its member c1, while c3 is a registered member of
\* the other room.
C3_FanoutBesideOtherRoom ==
    /\ roomPc["lobby"] = "append"
    /\ roomCur["lobby"].src = "test"
    /\ roomCur["lobby"] \in Range(delivered["c1"])
    /\ "c3" \in hubClients
    /\ "c3" \in roomClients["default"]

Latest(s) == s[Len(s)]

Parties(m) == {m.From, m.To}

BothConnected(m) ==
    /\ \E x \in hubClients : ConnUser(x) = m.From
    /\ \E y \in hubClients : ConnUser(y) = m.To

\* C4: a direct message from X to Y, both connected, is enqueued to the mailbox
\* of every registered connection of X or of Y that has room for it, whatever
\* its room, and to the mailbox of no connection of another user; and no
\* mailbox ever receives a direct message of two other users.
C4_DirectDoubleDelivery ==
    /\ [](\A c \in Conns : \A i \in 1..Len(delivered[c]) :
             delivered[c][i].To # Empty => ConnUser(c) \in Parties(delivered[c][i]))
    /\ [][(dmLog' # dmLog /\ BothConnected(Latest(dmLog'))) =>
             \A c \in Conns :
                /\ (/\ c \in hubClients
                    /\ ConnUser(c) \in Parties(Latest(dmLog'))
                    /\ Accepts(privateChan[c]))
                       => delivered'[c] = Append(delivered[c], Latest(dmLog'))
                /\ ConnUser(c) \notin Parties(Latest(dmLog'))
                       => delivered'[c] = delivered[c]]_vars

\* C4, its case: alice wrote to bob while all four connections were registered;
\* both connections of alice (one in each room) and bob's hold the message,
\* carol's mailbox holds no direct message.
C4_BothUsersHoldIt ==
    /\ hubClients = Conns
    /\ dmLog # << >>
    /\ Latest(dmLog).From = Alice /\ Latest(dmLog).To = Bob
    /\ \A c \in {"c1", "c2", "c4"} : delivered[c] # << >> /\ Latest(delivered[c]) = Latest(dmLog)
    /\ \A i \in 1..Len(delivered["c3"]) : delivered["c3"][i].To = Empty

\* C5: a direct message addressed to a user that no registered connection has
\* is enqueued to no mailbox, the sender's included, changes no room's History
\* and raises no error.
C5_UnknownRecipientNoOp ==
    [][(dmLog' # dmLog /\ ~ \E y \in hubClients : ConnUser(y) = Latest(dmLog').To) =>
          /\ delivered' = delivered
          /\ history' = history
          /\ ~panicked']_vars

\* C5, the state refuting it: the registered sender holds its own message to
\* zed, whom no connection has.
C5_SenderHoldsItsOwn ==
    /\ "c1" \in hubClients
    /\ delivered["c1"] # << >>
    /\ Latest(delivered["c1"]).To = Zed
    /\ Latest(delivered["c1"]).From = Alice

\* C6: the step of RegisterClient that replays a History [m1, m2, m3] leaves the
\* joining connection's mailbox having received exactly m1, m2, m3, in that
\* order: no broadcast went in before them.  (Every later broadcast is then
\* enqueued after them.)
C6_ReplayComesFirst ==
    [][\A c \in Conns :
          replayed'[c] # replayed[c] => delivered'[c] = replayed'[c]]_vars

\* C6, the state refuting it: c2, made a member by the handler before it was
\* registered, received c1's join message from the room's loop, and then once
\* more from the replay.
C6_LiveThenReplayed ==
    /\ callPc["hub"] = "reg_add"
    /\ callArg["hub"].c = "c2"
    /\ replayed["c2"] = <<JoinedMsg("c1", "lobby")>>
    /\ delivered["c2"] = <<JoinedMsg("c1", "lobby"), JoinedMsg("c1", "lobby")>>

\* C7: the step of RegisterClient that replays History enqueues every entry of
\* it to the joining connection's mailbox, in order, none omitted.
C7_ReplayIsWhole ==
    [][\A c \in Conns :
          replayed'[c] # replayed[c] =>
              delivered'[c] = delivered[c] \o replayed'[c]]_vars

\* C7, the state refuting it: a History longer than the mailbox was replayed
\* into an empty mailbox, and only its first 16 entries were enqueued.
C7_ReplayCutShort ==
    /\ callPc["hub"] = "reg_add"
    /\ Len(replayed["c1"]) > MailboxCap
    /\ delivered["c1"] = SubSeq(replayed["c1"], 1, MailboxCap)

AllReturned == \A t \in Threads : callPc[t] = "idle"

\* C8: connection teardown invoked twice (Client.Close twice, UnregisterClient
\* twice, in sequence or at once) never panics, and once the invocations have
\* completed the connection is in both of, or in neither of, Hub.Clients and
\* the members of its room.
C8_TeardownTwiceIsSafe ==
    /\ ~panicked
    /\ \A c \in Conns :
          ((closeCalls[c] >= MaxCloses \/ unregCalls[c] >= MaxUnregs) /\ AllReturned) =>
              (c \in hubClients <=> c \in roomClients[ConnRoom(c)])

\* C8, the state refuting it: the second Client.Close closed a closed CloseCh.
C8_SecondClosePanics == panicked /\ closeCalls["c1"] = MaxCloses

\* C9: over the life of a connection the transport's Close is invoked at most
\* once.
C9_TransportClosedOnce == \A c \in Conns : connCloses[c] <= 1

\* C9, the state refuting it: ReadSocket's deferred function, Client.Close
\* under UnregisterClient, and WriteSocket's deferred function each closed the
\* transport.
C9_TransportClosedThrice ==
    /\ connPc["c1"] = "done"
    /\ writePc["c1"] = "done"
    /\ closeCalls["c1"] = 1
    /\ connCloses["c1"] = 3

RegisteredOnce(c) ==
    /\ regCalls[c] = 1
    /\ \A t \in Threads : ~(callPc[t] = "reg_lock" /\ callArg[t].c = c)

\* C10: for a registered connection, however many UnregisterClient invocations
\* run, through unregisterCh or called directly, in sequence or at once,
\* Client.Close is called exactly once: never before one of them has found the
\* connection in Hub.Clients, once from then on.
C10_ClosedExactlyOnce ==
    \A c \in Conns :
        /\ closeCalls[c] <= 1
        /\ RegisteredOnce(c) =>
              closeCalls[c] = IF c \in hubClients THEN 0 ELSE 1

\* C10, its case: the connection was registered, two UnregisterClient
\* invocations have run to their end, and Client.Close was called once.
C10_TwoUnregistersOneClose ==
    /\ RegisteredOnce("c1")
    /\ unregCalls["c1"] >= 2
    /\ AllReturned
    /\ closeCalls["c1"] = 1

IsLeftOf(m, c) == m.Type = <<"system">> /\ m.src = c /\ m.n < 0

IsJoinedOf(m, c) == m.Type = <<"system">> /\ m.src = c /\ m.n = 0

Count(s, P(_)) == Cardinality({i \in 1..Len(s) : P(s[i])})

\* C11: the step on which UnregisterClient(c) returns, for a registered
\* connection c, leaves c out of Hub.Clients (GetClients does not return it)
\* and out of the members of its room, and enqueues the "left" message of c to
\* the inbox of that room, which has then received exactly one such message.
C11_UnregisterPostcondition ==
    [][\A t \in Threads :
          (callPc[t] = "unreg_bcast" /\ callPc'[t] = "idle") =>
              LET c == callArg[t].c
                  rn == ConnRoom(callArg[t].c)
                  IsLeft(m) == IsLeftOf(m, c)
              IN /\ c \notin GetClients'
                 /\ c \notin roomClients'[rn]
                 /\ roomInbox'[rn] # << >>
                 /\ Latest(roomInbox'[rn]) = LeftMsg(c, rn, callArg[t].k)
                 /\ roomLog'[rn] = Append(roomLog[rn], LeftMsg(c, rn, callArg[t].k))
                 /\ Count(roomLog'[rn], IsLeft) = 1]_vars

\* C11, its case: c1 was registered, left, and its UnregisterClient has
\* returned, while c2 stays registered in the same room.
C11_UnregisterReturned ==
    /\ connPc["c1"] = "done"
    /\ callPc["hub"] = "idle"
    /\ unregCalls["c1"] = 1
    /\ closeCalls["c1"] = 1
    /\ "c2" \in hubClients
    /\ "c2" \in roomClients["lobby"]
    /\ "c1" \notin hubClients
    /\ "c1" \notin roomClients["lobby"]

\* C12: the step on which RegisterClient(c) returns, called by Hub.Run for a
\* client received on RegisterCh or called directly, with no UnregisterClient(c)
\* begun, leaves c in Hub.Clients (GetClients returns it) and among the members
\* of the room that c.GetRoomName() names, which exists, and enqueues the
\* "joined" message of c to the inbox of that room, which has then received
\* exactly one such message.
C12_RegisterPostcondition ==
    [][\A t \in Threads :
          (callPc[t] = "reg_bcast" /\ callPc'[t] = "idle" /\ unregCalls[callArg[t].c] = 0) =>
              LET c == callArg[t].c
                  rn == ConnRoom(callArg[t].c)
                  IsJoined(m) == IsJoinedOf(m, c)
              IN /\ c \in GetClients'
                 /\ rn \in hubRooms'
                 /\ roomPc'[rn] # "none"
                 /\ c \in roomClients'[rn]
                 /\ roomInbox'[rn] # << >>
                 /\ Latest(roomInbox'[rn]) = JoinedMsg(c, rn)
                 /\ roomLog'[rn] = Append(roomLog[rn], JoinedMsg(c, rn))
                 /\ Count(roomLog'[rn], IsJoined) = 1]_vars

\* C12, its case: RegisterClient(c1) has returned, having made the room, and
\* no UnregisterClient has begun.
C12_RegisterReturned ==
    /\ AllReturned
    /\ regCalls["c1"] = 1
    /\ unregCalls["c1"] = 0
    /\ "c1" \in hubClients
    /\ "c1" \in roomClients["lobby"]
    /\ roomLog["lobby"] = <<JoinedMsg("c1", "lobby")>>

IsBlank(text) == \A i \in 1..Len(text) : text[i] = SP

\* Every message that is, or ever was, in a room's inbox, a History, a mailbox
\* or the direct-message route.
Dispatched ==
    UNION {Range(roomLog[rn]) \cup Range(history[rn]) : rn \in RoomNames}
      \cup UNION {Range(delivered[c]) \cup Range(privateChan[c]) : c \in Conns}
      \cup Range(dmLog)

\* C13: a frame whose text is empty or only blanks, with or without a
\* recipient, puts no message into any mailbox or room inbox and no entry into
\* any History: no message with a blank text is ever dispatched, and the step
\* of ReadSocket that builds a message and dispatches none changes no mailbox,
\* no inbox and no History, and leaves ReadSocket reading.
C13_BlankSuppressed ==
    /\ [](\A m \in Dispatched : ~IsBlank(m.Text))
    /\ [][\A c \in Conns :
             (sent'[c] # sent[c] /\ roomLog' = roomLog /\ dmLog' = dmLog) =>
                 /\ privateChan' = privateChan
                 /\ delivered' = delivered
                 /\ roomInbox' = roomInbox
                 /\ history' = history
                 /\ broadcastCh' = broadcastCh
                 /\ connPc'[c] = "read"]_vars

\* C13, its case: registered c1, with registered bob in the room, has read a
\* frame and dispatched nothing.
C13_BlankFrameRead ==
    /\ sent["c1"] = 1
    /\ connPc["c1"] = "read"
    /\ hubClients = {"c1", "c2"}
    /\ \A m \in Dispatched : m.src = "c1" => m.Type = <<"system">>

Probe == Msg(Empty, Empty, Empty, <<"hello">>, "", "probe", 0)

\* C14: SendMessage never blocks.  On a mailbox of fewer than 16 messages it
\* appends the message at the tail, and the messages leave the mailbox in the
\* order they were accepted; on a full mailbox it drops the message and changes
\* neither the mailbox nor anything else.
C14_SendMessageNonBlocking ==
    /\ [](\A c \in Conns :
             /\ Len(privateChan[c]) <= MailboxCap
             /\ privateChan[c] = LastN(delivered[c], Len(privateChan[c]))
             /\ SendMessage(privateChan[c], Probe) =
                   IF Len(privateChan[c]) < MailboxCap
                   THEN Append(privateChan[c], Probe) ELSE privateChan[c])
    /\ []((~panicked /\ extSent < MaxMailMsgs) => ENABLED TestSendMessage("c1"))
    /\ [][extSent' # extSent =>
             /\ privateChan'["c1"] =
                   IF Len(privateChan["c1"]) < MailboxCap
                   THEN Append(privateChan["c1"], Latest(privateChan'["c1"]))
                   ELSE privateChan["c1"]
             /\ Len(privateChan["c1"]) < MailboxCap =>
                   /\ Latest(privateChan'["c1"]).n = extSent'
                   /\ delivered'["c1"] = Append(delivered["c1"], Latest(privateChan'["c1"]))
             /\ Len(privateChan["c1"]) >= MailboxCap => delivered' = delivered
             /\ \A c \in Conns \ {"c1"} : privateChan'[c] = privateChan[c]
             /\ UNCHANGED <<hubVars, callVars, roomVars, connVars, closeVars>>]_vars

\* C14, its case: a message was sent to a full mailbox and dropped, and the
\* receiver has since taken the oldest message out.
C14_DroppedOnFull ==
    /\ extSent = MailboxCap + 1
    /\ Len(delivered["c1"]) = MailboxCap
    /\ Len(privateChan["c1"]) = MailboxCap - 1
    /\ Head(privateChan["c1"]).n = 2


\* C15: in every reachable state every member of a room is also in
\* Hub.Clients; only a connection of Hub.Clients that is in no room may occur.
C15_MembersAreRegistered ==
    \A rn \in RoomNames : roomClients[rn] \subseteq hubClients

\* C15, its refutation: the handler has made c1 a member of the lobby and
\* still waits to hand it to the hub.
C15_MemberBeforeRegistered ==
    /\ connPc["c1"] = "register"
    /\ regCalls["c1"] = 0
    /\ "c1" \in roomClients["lobby"]
    /\ "c1" \notin hubClients


\* C16: the route of an inbound frame with a non-blank text is decided by its
\* recipient field alone.  With a recipient the message is direct whatever the
\* frame's type says, and no room's channel receives it; without one it is
\* enqueued once to the channel of the sender's room and to no other, and no
\* mailbox receives it on that step.
C16_RoutedByRecipient ==
    [][\A c \in Conns : \A f \in RoutingFrames :
          (ReadFrame(c, f) /\ ~IsBlank(f.Text)) =>
             IF ~IsBlank(f.To)
             THEN /\ roomInbox' = roomInbox
                  /\ roomLog' = roomLog
                  /\ history' = history
                  /\ dmLog' # << >>
                  /\ dmLog' = Append(dmLog, Latest(dmLog'))
                  /\ Latest(dmLog').src = c
                  /\ Latest(dmLog').n = sent'[c]
                  /\ Latest(dmLog').Type = <<"private">>
             ELSE /\ dmLog' = dmLog
                  /\ privateChan' = privateChan
                  /\ delivered' = delivered
                  /\ roomInbox'[ConnRoom(c)] # << >>
                  /\ roomInbox' = [roomInbox EXCEPT ![ConnRoom(c)] =
                                      Append(@, Latest(roomInbox'[ConnRoom(c)]))]
                  /\ roomLog' = [roomLog EXCEPT ![ConnRoom(c)] =
                                      Append(@, Latest(roomInbox'[ConnRoom(c)]))]
                  /\ Latest(roomInbox'[ConnRoom(c)]).src = c
                  /\ Latest(roomInbox'[ConnRoom(c)]).n = sent'[c]
                  /\ Latest(roomInbox'[ConnRoom(c)]).Type = TrimSpace(f.Type)]_vars

\* C16, its case: both rooms exist with their members registered; carol's frame
\* of type "private" without a recipient is in the channel log of her room
\* alone, or alice's frame of type "message" with a recipient is in no room.
C16_TypeDisagreed ==
    /\ hubClients = {"c1", "c3"}
    /\ hubRooms = RoomNames
    /\ \/ /\ \E i \in 1..Len(roomLog["default"]) :
                /\ roomLog["default"][i].src = "c3"
                /\ roomLog["default"][i].Type = <<"private">>
                /\ roomLog["default"][i].To = Empty
          /\ \A i \in 1..Len(roomLog["lobby"]) : roomLog["lobby"][i].src # "c3"
       \/ /\ dmLog # << >>
          /\ Latest(dmLog).src = "c1"
          /\ Latest(dmLog).To = <<"bob">>
          /\ \A rn \in RoomNames : \A i \in 1..Len(roomLog[rn]) :
                roomLog[rn][i].Type = <<"system">>


Copies(s, m) == Cardinality({i \in 1..Len(s) : s[i] = m})

\* C17: a direct message never enters a room's channel or History, and when
\* alice writes to bob, both registered with room in their mailboxes, every
\* mailbox of bob and of alice receives exactly one copy.
C17_DirectStaysOutOfRooms ==
    /\ [](\A rn \in RoomNames :
             /\ \A i \in 1..Len(roomLog[rn]) : roomLog[rn][i].To = Empty
             /\ \A i \in 1..Len(history[rn]) : history[rn][i].To = Empty
             /\ \A i \in 1..Len(dmLog) :
                   dmLog[i] \notin Range(roomLog[rn]) \cup Range(history[rn]))
    /\ [](\A c \in Conns : \A i \in 1..Len(dmLog) : Copies(delivered[c], dmLog[i]) <= 1)
    /\ [][(dmLog' # dmLog /\ BothConnected(Latest(dmLog'))) =>
             /\ roomInbox' = roomInbox
             /\ roomLog' = roomLog
             /\ history' = history
             /\ \A c \in hubClients :
                   (ConnUser(c) \in Parties(Latest(dmLog')) /\ Accepts(privateChan[c]))
                      => /\ Copies(delivered'[c], Latest(dmLog')) = 1
                         /\ Copies(privateChan'[c], Latest(dmLog')) = 1]_vars

\* C17, its case: alice's connection c1 wrote to bob through its socket while
\* both were registered members of the lobby, whose History holds messages;
\* each of the two mailboxes received one copy and the History holds none.
C17_SecretDelivered ==
    /\ {"c1", "c2"} \subseteq hubClients
    /\ dmLog # << >>
    /\ Latest(dmLog).src = "c1" /\ Latest(dmLog).To = Bob
    /\ Copies(delivered["c1"], Latest(dmLog)) = 1
    /\ Copies(delivered["c2"], Latest(dmLog)) = 1
    /\ history["lobby"] # << >>
    /\ Latest(dmLog) \notin Range(history["lobby"])


HeldNext(m) ==
    \/ \E rn \in RoomNames :
          m \in Range(roomInbox'[rn]) \cup Range(history'[rn]) \cup {roomCur'[rn]}
    \/ \E c \in Conns : m \in Range(privateChan'[c])
    \/ \E t \in Threads : callArg'[t].m = m
    \/ m \in Range(broadcastCh')

\* C18: Hub.Broadcast of a message without a recipient whose room is not in
\* h.Rooms returns at once and discards it: no room is created, Hub.Clients
\* and h.Rooms are unchanged, no room's members, channel or History and no
\* mailbox changes, and the message is held nowhere afterwards.
C18_UnknownRoomDiscarded ==
    [][\A t \in Threads :
          (/\ callPc[t] = "bc_lock"
           /\ callPc'[t] # "bc_lock"
           /\ callArg[t].m.To = Empty
           /\ callArg[t].m.Room \notin hubRooms) =>
             /\ callPc'[t] = "idle"
             /\ hubRooms' = hubRooms
             /\ hubClients' = hubClients
             /\ hubMu' = hubMu
             /\ roomPc' = roomPc
             /\ roomClients' = roomClients
             /\ roomInbox' = roomInbox
             /\ roomLog' = roomLog
             /\ history' = history
             /\ privateChan' = privateChan
             /\ delivered' = delivered
             /\ ~HeldNext(callArg[t].m)
             /\ ~panicked']_vars

\* C18, its case: the one message of the producer named the room default while
\* only the lobby existed; Hub.Broadcast has returned, the room default was
\* made afterwards by carol's connection, and its channel never held the
\* message.
C18_MessageForNoRoom ==
    /\ bcCalls = 1
    /\ broadcastCh = << >>
    /\ callPc["hub"] = "idle"
    /\ hubClients = {"c1", "c3"}
    /\ \A i \in 1..Len(roomLog["lobby"]) : roomLog["lobby"][i].src # "test"
    /\ roomLog["default"] = <<JoinedMsg("c3", "default")>>
    /\ regCalls["c1"] = 1 /\ regCalls["c3"] = 1
    /\ sent["c1"] = 0 /\ sent["c3"] = 0


\* C19: GetRoom is lazy and idempotent.  Whatever number of calls name a room,
\* one after another or at once, NewRoom makes exactly one room of that name
\* and starts exactly one Run loop, none before the first call; every call
\* returns that one instance, and a call that finds the room mapped leaves its
\* channel, History and loop alone.
C19_GetRoomIdempotent ==
    /\ [](\A rn \in RoomNames :
             /\ roomsMade[rn] <= 1
             /\ roomsMade[rn] = Cardinality(hubRooms \cap {rn})
             /\ roomsMade[rn] = Cardinality({x \in {rn} : roomPc[x] # "none"})
             /\ (roomsMade[rn] = 1) = (gotRoom[rn] # << >>)
             /\ \A i \in 1..Len(gotRoom[rn]) : gotRoom[rn][i] = 1)
    /\ [][\A rn \in RoomNames :
             (gotRoom'[rn] # gotRoom[rn] /\ rn \in hubRooms) =>
                /\ hubRooms' = hubRooms
                /\ roomsMade' = roomsMade
                /\ roomInbox'[rn] = roomInbox[rn]
                /\ history'[rn] = history[rn]
                /\ roomPc'[rn] = roomPc[rn]
                /\ roomClients[rn] \subseteq roomClients'[rn]]_vars

\* C19, its case: three goroutines were inside RegisterClient and
\* UnregisterClient at once while the lobby did not exist, each called GetRoom,
\* and one room was made.
C19_ThreeConcurrentCalls ==
    /\ Len(gotRoom["lobby"]) >= 3
    /\ roomsMade["lobby"] = 1
    /\ roomPc["lobby"] # "none"


\* C20: AddClient and RemoveClient are idempotent on the member set.  After
\* AddClient(c), c is a member and OnlineUsers holds c's username once for each
\* member of that name; after RemoveClient(c), c is no member; adding a member
\* again or removing a client that is none leaves the set as it was, and the
\* other members are never touched.
C20_MembershipIdempotent ==
    /\ [](\A rn \in RoomNames : \A c \in Conns :
             LET members == roomClients[rn]
             IN /\ c \in Added(members, c)
                /\ ConnUser(c) \in DOMAIN OnlineUsersOf(Added(members, c))
                /\ Added(Added(members, c), c) = Added(members, c)
                /\ c \in members => Added(members, c) = members
                /\ Added(members, c) \ {c} = members \ {c}
                /\ c \notin Removed(members, c)
                /\ Removed(Removed(members, c), c) = Removed(members, c)
                /\ c \notin members => Removed(members, c) = members
                /\ Removed(members, c) \ {c} = members \ {c}
                /\ \A u \in DOMAIN OnlineUsers(rn) :
                      OnlineUsers(rn)[u] = Cardinality({x \in members : ConnUser(x) = u}))
    /\ [][\A rn \in RoomNames : \A c \in Conns :
             /\ TestAddClient(rn, c) =>
                   /\ c \in roomClients'[rn]
                   /\ ConnUser(c) \in DOMAIN OnlineUsersOf(roomClients'[rn])
                   /\ roomClients'[rn] \ {c} = roomClients[rn] \ {c}
             /\ TestRemoveClient(rn, c) =>
                   /\ c \notin roomClients'[rn]
                   /\ roomClients'[rn] \ {c} = roomClients[rn] \ {c}
                   /\ \A u \in DOMAIN OnlineUsersOf(roomClients'[rn]) :
                         \E x \in roomClients[rn] \ {c} : ConnUser(x) = u]_vars

\* C20, its case: after adds, adds again and removes, the lobby holds both
\* connections of alice and bob's, OnlineUsers names alice twice, and carol's
\* connection, added and removed, is a member of the other room only.
C20_AddedAndRemoved ==
    /\ roomClients["lobby"] = {"c1", "c2", "c4"}
    /\ roomClients["default"] = {"c3"}
    /\ OnlineUsers("lobby")[Alice] = 2
    /\ OnlineUsers("lobby")[Bob] = 1
    /\ DOMAIN OnlineUsers("default") = {ConnUser("c3")}


\* C21: every message enqueued to a room is eventually dequeued by the room's
\* loop and appended to History; the step that dequeues it enqueues it to the
\* mailbox of every member at that moment that has room, skips the full
\* mailboxes and the connections that are no members, and the next step of
\* the loop appends it to History.
C21_EnqueuedIsProcessed ==
    /\ \A k \in 1..MaxFanMsgs :
          (Len(roomLog["lobby"]) >= k) ~>
             (/\ Len(processed["lobby"]) >= k
              /\ processed["lobby"][k] = roomLog["lobby"][k]
              /\ Len(history["lobby"]) >= k
              /\ history["lobby"][k] = roomLog["lobby"][k])
    /\ [][\A rn \in RoomNames :
             /\ processed'[rn] # processed[rn] =>
                   /\ roomInbox[rn] # << >>
                   /\ processed'[rn] = Append(processed[rn], Head(roomInbox[rn]))
                   /\ roomInbox'[rn] = Tail(roomInbox[rn])
                   /\ \A c \in Conns :
                         privateChan'[c] =
                            IF c \in roomClients[rn] /\ Len(privateChan[c]) < MailboxCap
                            THEN Append(privateChan[c], Head(roomInbox[rn]))
                            ELSE privateChan[c]
                   /\ history' = history
             /\ (roomPc[rn] = "append" /\ roomPc'[rn] # "append") =>
                   /\ history'[rn] = Append(history[rn], Latest(processed[rn]))
                   /\ privateChan' = privateChan]_vars

\* C21, its case: 18 messages were sent and all are in History; the first
\* member's mailbox is full with the first 16 (the others were skipped), and the
\* member that joined late holds the last message only.
C21_AllInHistory ==
    /\ extSent = MaxFanMsgs
    /\ Len(history["lobby"]) = MaxFanMsgs
    /\ history["lobby"] = roomLog["lobby"]
    /\ roomClients["lobby"] = {"c1", "c2"}
    /\ privateChan["c1"] = SubSeq(roomLog["lobby"], 1, MailboxCap)
    /\ privateChan["c2"] = <<Latest(roomLog["lobby"])>>


\* a is b with some of its elements left out
RECURSIVE IsSubSeq(_, _)
IsSubSeq(a, b) ==
    IF a = << >> THEN TRUE
    ELSE IF b = << >> THEN FALSE
    ELSE IF Head(a) = Head(b) THEN IsSubSeq(Tail(a), Tail(b))
    ELSE IsSubSeq(a, Tail(b))

\* C22: per-room FIFO.  For every connection, the room messages the loop has
\* enqueued to its mailbox, and those still in the mailbox, are in the order
\* in which the loop dequeued them: messages may be missing, none is out of
\* order or repeated.
C22_PerRoomFifo ==
    \A c \in Conns : \A rn \in RoomNames :
       c \in roomClients[rn] =>
          /\ IsSubSeq(delivered[c], processed[rn])
          /\ IsSubSeq(privateChan[c], processed[rn])

\* C22, its case: the first member's mailbox was full when the 17th message
\* was dequeued and had room again for the 18th, and the second member joined
\* after the first message: both miss messages and hold the rest in order.
C22_GapsInOrder ==
    /\ Len(processed["lobby"]) >= MailboxCap + 2
    /\ Len(delivered["c1"]) = MailboxCap + 1
    /\ Latest(delivered["c1"]) = processed["lobby"][MailboxCap + 2]
    /\ delivered["c1"][MailboxCap] = processed["lobby"][MailboxCap]
    /\ Len(delivered["c2"]) >= 2
    /\ Head(delivered["c2"]) # Head(processed["lobby"])


\* The room whose channel goroutine t is about to send to
SendsTo(t) ==
    IF callPc[t] = "bc_send" THEN callArg[t].m.Room ELSE ConnRoom(callArg[t].c)

\* C23: the hub's dispatch loop never waits for a room: whenever Hub.Run stands
\* at a room.BroadcastMessage call (in Broadcast, RegisterClient or
\* UnregisterClient), the room's channel has room for the message.
C23_HubNeverWaitsOnRoom ==
    callPc["hub"] \in {"bc_send", "reg_bcast", "unreg_bcast"} =>
       CanEnqueue(SendsTo("hub"))

\* C23, the state refuting it: the lobby's channel holds 128 messages and its
\* loop has not come round to it; Hub.Run stands inside Hub.Broadcast at its
\* send to the lobby and cannot take a step, and the handler of a connection to
\* the other room cannot take its first step either.
C23_HubWaitsOnLobby ==
    /\ Len(roomInbox["lobby"]) = RoomInboxCap
    /\ roomPc["lobby"] = "recv"
    /\ callPc["hub"] = "bc_send"
    /\ ~ENABLED Broadcast("hub")
    /\ connPc["c3"] = "new"
    /\ ~ENABLED HandlerConnect("c3")

\* C24: no goroutine is at an operation that can block while it holds the
\* hub's lock: the holder of h.mu never stands at a send to a room's channel.
C24_NoBlockingUnderLock ==
    \A t \in Threads : hubMu = t => callPc[t] # "bc_send"

\* C24, the state refuting it: Hub.Broadcast holds h.mu and its send to the
\* lobby's full channel is blocked.
C24_SendBlockedUnderLock ==
    /\ hubMu = "hub"
    /\ callPc["hub"] = "bc_send"
    /\ callArg["hub"].m.Room = "lobby"
    /\ ~CanEnqueue("lobby")


\* C25: a connection whose mailbox is never drained stalls nothing.  With c1's
\* mailbox full for good: every message enqueued to the room is dequeued and
\* appended to History, every call that Hub.Run makes (RegisterClient,
\* UnregisterClient, Broadcast) returns, the other connection's ReadSocket can
\* handle its next frame whenever the hub's lock is free and completes its
\* teardown, and the full mailbox is left as it is.
C25_StalledConsumerStallsNothing ==
    /\ \A k \in 1..(3 + MaxSends) :
          (Len(roomLog["lobby"]) >= k) ~> (Len(history["lobby"]) >= k)
    /\ (callPc["hub"] # "idle") ~> (callPc["hub"] = "idle")
    /\ (connPc["c2"] = "unreg") ~> (connPc["c2"] = "done" /\ callPc["hub"] = "idle")
    /\ []((connPc["c2"] = "read" /\ SendBudget /\ hubMu = "") =>
             \A f \in StalledFrames : ENABLED ReadFrame("c2", f))
    /\ [][~Accepts(privateChan["c1"]) => privateChan'["c1"] = privateChan["c1"]]_vars

\* C25, its case: with c1's mailbox full and c1 a registered member, the room
\* has handled the join of c2 (replay and fan-out met the full mailbox), a
\* message and the leave of c2, and Hub.Run is idle again.
C25_CoreWentOn ==
    /\ Len(privateChan["c1"]) = MailboxCap
    /\ \A i \in 1..MailboxCap : privateChan["c1"][i].src = "test"
    /\ "c1" \in hubClients /\ "c1" \in roomClients["lobby"]
    /\ connPc["c2"] = "done"
    /\ callPc["hub"] = "idle"
    /\ TotalSent + bcCalls = MaxSends
    /\ roomInbox["lobby"] = << >>
    /\ Len(history["lobby"]) = 3 + sent["c2"]
    /\ history["lobby"] = roomLog["lobby"]


\* C26: History is never modified while another goroutine is reading it: no
\* step changes a room's History while a goroutine is inside the replay loop
\* of that room.
C26_HistoryGuardedByLock ==
    [][\A rn \in RoomNames :
          history'[rn] # history[rn] => HistoryReaders(rn) = {}]_vars

\* C26, the state refuting it: Hub.RegisterClient is inside its loop over the
\* lobby's History, holding r.Mu.RLock, and Room.Run has appended a message to
\* that History since the loop began.
C26_AppendedUnderReader ==
    /\ HistoryReaders("lobby") = {"hub"}
    /\ roomPc["lobby"] = "recv"
    /\ replayed["c1"] # << >>
    /\ history["lobby"] = Append(replayed["c1"], Latest(processed["lobby"]))


\* The connection is deregistered: in neither h.Clients nor the members of its
\* room, its CloseCh closed, its WriteSocket returned.
Deregistered(c) ==
    /\ c \notin hubClients
    /\ c \notin roomClients[ConnRoom(c)]
    /\ closeCh[c]
    /\ writePc[c] = "done"

\* C27: when ReadSocket of a registered connection gets a read error, it reads
\* no further frame, and the connection is eventually deregistered: it is in
\* neither Clients nor the members of its room, its close signal is raised
\* and its WriteSocket has returned.
C27_ReadErrorDeregisters ==
    /\ [][connPc["c1"] \in {"unreg", "done"} =>
             /\ connPc'["c1"] \in {"unreg", "done"}
             /\ sent'["c1"] = sent["c1"]]_vars
    /\ (connPc["c1"] = "unreg") ~> (Deregistered("c1") /\ callPc["hub"] = "idle")

\* C27 happens: after a read error c1 ends deregistered by one call of
\* UnregisterClient, its transport closed by Client.Close and by the deferred
\* functions of ReadSocket and of WriteSocket.
C27_DeregisteredAfterError ==
    /\ Deregistered("c1")
    /\ connPc["c1"] = "done"
    /\ callPc["hub"] = "idle"
    /\ unregCalls["c1"] = 1
    /\ connCloses["c1"] = 3


\* C28: a failed write of WriteSocket, of a message or of a ping, ends the
\* pump: the step that ends it closes the transport, the pump never runs
\* again and takes nothing more from the mailbox, and from there ReadSocket
\* is torn down and the connection deregistered.
C28_WriteFailureTearsDown ==
    /\ [][(writePc["c1"] = "run" /\ writePc'["c1"] = "done") =>
             connCloses'["c1"] = connCloses["c1"] + 1]_vars
    /\ [][writePc["c1"] = "done" =>
             /\ writePc'["c1"] = "done"
             /\ Len(privateChan'["c1"]) >= Len(privateChan["c1"])]_vars
    /\ (writePc["c1"] = "done") ~>
           (Deregistered("c1") /\ connPc["c1"] = "done" /\ callPc["hub"] = "idle")

\* C28 happens: a write failed while the connection was registered and its
\* close signal not raised; WriteSocket has returned and closed the
\* transport, and ReadSocket has left its loop for the deferred send.
C28_ReaderFollowsWriter ==
    /\ writePc["c1"] = "done"
    /\ ~closeCh["c1"]
    /\ connCloses["c1"] = 1
    /\ "c1" \in hubClients
    /\ connPc["c1"] = "unreg"


\* C29: the read deadline rolls: every step in which ReadSocket reads a frame
\* or a pong sets the deadline a full timeout ahead, and ReadSocket ends on
\* the deadline only when a full timeout has passed since it last read one.
C29_ReadDeadlineRolls ==
    /\ [][(connPc["c1"] = "read" /\ lastRead'["c1"] # lastRead["c1"]) =>
             readDeadline'["c1"] = clock + ReadTimeout]_vars
    /\ [][ReadTimeoutError("c1") => clock >= lastRead["c1"] + ReadTimeout]_vars

\* C29, the state refuting it: ReadSocket has read a frame of the peer, no
\* timeout has passed since, and it has left its loop on the read deadline.
C29_TimedOutAfterFrame ==
    /\ connPc["c1"] = "unreg"
    /\ sent["c1"] = 1
    /\ clock >= readDeadline["c1"]
    /\ clock < lastRead["c1"] + ReadTimeout
    /\ connCloses["c1"] = 0


\* UnregisterClient has been called for c and every such call has returned
UnregisterCompleted(c) ==
    /\ unregCalls[c] > 0
    /\ \A t \in Threads :
          callArg[t].c = c =>
              callPc[t] \notin {"unreg_lock", "unreg_room", "unreg_remove", "unreg_bcast"}

\* C30: once UnregisterClient has completed for a connection, the connection
\* is never again in Hub.Clients nor a member of any room, and no message is
\* put into its mailbox any more.
C30_NoWayBackFromClosed ==
    /\ [](\A c \in Conns :
            UnregisterCompleted(c) =>
                /\ c \notin hubClients
                /\ \A rn \in RoomNames : c \notin roomClients[rn])
    /\ [][\A c \in Conns :
            UnregisterCompleted(c) =>
                /\ UnregisterCompleted(c)'
                /\ delivered'[c] = delivered[c]
                /\ Len(privateChan'[c]) <= Len(privateChan[c])]_vars

\* C30 happens: c1 has been deregistered, and after that the room has given
\* c2 the message that tells so and then a message read from c2's peer.
C30_RoomWentOnWithout ==
    /\ UnregisterCompleted("c1")
    /\ "c2" \in hubClients
    /\ Len(delivered["c2"]) >= 2
    /\ Latest(delivered["c2"]).src = "c2"
    /\ Latest(delivered["c2"]).n = 1
    /\ delivered["c2"][Len(delivered["c2"]) - 1] = LeftMsg("c1", "lobby", 1)


\* The messages ReadSocket, RegisterClient and UnregisterClient have built
Constructed ==
    {dmLog[i] : i \in 1..Len(dmLog)}
        \cup UNION {{roomLog[rn][i] : i \in 1..Len(roomLog[rn])} : rn \in RoomNames}

\* C31: every message the core builds has a recipient exactly when its kind
\* is direct (type "private"), and a room exactly when its kind is broadcast
\* (type "message").
C31_FieldsFollowKind ==
    \A m \in Constructed :
        /\ (m.To # Empty) <=> (m.Type = <<"private">>)
        /\ (m.Room # "") <=> (m.Type = <<"message">>)

\* C31, the state refuting it: ReadSocket has built a direct message, of type
\* "private" and with a recipient, that carries the sender's room.
C31_DirectCarriesRoom ==
    \E i \in 1..Len(dmLog) :
        /\ dmLog[i].Type = <<"private">>
        /\ dmLog[i].To # Empty
        /\ dmLog[i].Room = ConnRoom(dmLog[i].src)


\* C32: no two distinct connections in Hub.Clients have the same username.
C32_IdentitiesUnique ==
    \A x \in hubClients : \A y \in hubClients :
        ConnUser(x) = ConnUser(y) => x = y

\* C32, the state refuting it: the user of c1 has opened a second connection,
\* c4, while c1 is registered, and both are in Hub.Clients with their
\* registrations returned.
C32_TwoConnectionsOfAlice ==
    /\ {"c1", "c4"} \subseteq hubClients
    /\ ConnUser("c1") = ConnUser("c4")
    /\ callPc["hub"] = "idle"
    /\ connPc["c1"] = "read" /\ connPc["c4"] = "read"


\* C33: a connection is a member of at most one room, and only of the room
\* its GetRoomName() names, the one of its request.
C33_SingleFixedMembership ==
    \A c \in Conns : \A rn \in RoomNames :
        c \in roomClients[rn] => rn = ConnRoom(c)

\* C33 happens: two connections that asked for different rooms are
\* registered, each the only member of its own room.
C33_EachInItsRoom ==
    /\ {"c1", "c3"} \subseteq hubClients
    /\ callPc["hub"] = "idle"
    /\ roomClients["lobby"] = {"c1"}
    /\ roomClients["default"] = {"c3"}
    /\ ConnRoom("c1") # ConnRoom("c3")


\* s is the beginning of t
IsPrefix(s, t) == Len(s) <= Len(t) /\ SubSeq(t, 1, Len(s)) = s

\* the number of messages of h that fit into the mailbox q
Fits(q, h) == IF Len(h) <= MailboxCap - Len(q) THEN Len(h) ELSE MailboxCap - Len(q)

\* C34: a name that is in Hub.Rooms stays there, mapped to the room that was
\* made for it, whether or not the room has members; that room's History is
\* only ever appended to, or cut at its front once it exceeds its capacity;
\* and a connection that registers is replayed the History the room has
\* then, as far as its mailbox has room.
C34_RoomsPersist ==
    /\ [][\A rn \in hubRooms :
             /\ rn \in hubRooms'
             /\ roomsMade'[rn] = roomsMade[rn]
             /\ roomPc'[rn] # "none"
             /\ \/ IsPrefix(history[rn], history'[rn])
                \/ (Len(history[rn]) > HistoryCap /\ history'[rn] = Tail(history[rn]))]_vars
    /\ [][\A c \in Conns :
             replayed'[c] # replayed[c] =>
                 /\ replayed'[c] = history[ConnRoom(c)]
                 /\ delivered'[c] = delivered[c] \o
                        SubSeq(history[ConnRoom(c)], 1,
                               Fits(privateChan[c], history[ConnRoom(c)]))]_vars

\* C34 happens: the lobby has lost its only member, c1, is still the room that
\* was made first, and c2, which connected after that, has been replayed a
\* History that tells of c1 joining, speaking and leaving.
C34_ReplayedAfterEmpty ==
    /\ roomsMade["lobby"] = 1
    /\ UnregisterCompleted("c1")
    /\ Len(replayed["c2"]) = 3
    /\ replayed["c2"][1] = JoinedMsg("c1", "lobby")
    /\ replayed["c2"][2].src = "c1" /\ replayed["c2"][2].n = 1
    /\ replayed["c2"][3] = LeftMsg("c1", "lobby", 1)
    /\ delivered["c2"] = replayed["c2"]


\* a step of Hub.Run inside the method it has called
HubStep == HubRegister \/ HubUnregister \/ Broadcast("hub")

\* C35: no reachable state is a deadlock of Hub.Run, Room.Run and the pumps:
\* while Hub.Run is inside a method, it or the loop of the room it sends to
\* can take a step, and while a handler waits to send on RegisterCh or
\* unregisterCh, Hub.Run can receive or one of them can take a step.  Under
\* fair scheduling Hub.Run always comes back to its select, and each such send
\* is received.
C35_DeadlockFree ==
    /\ [](callPc["hub"] # "idle" => ENABLED (HubStep \/ RoomRun("lobby")))
    /\ [](connPc["c1"] \in {"register", "unreg"} =>
             ENABLED (HubRecvRegister("c1") \/ HubRecvUnregister("c1")
                         \/ HubRecvBroadcast \/ HubStep \/ RoomRun("lobby")))
    /\ (callPc["hub"] # "idle") ~> (callPc["hub"] = "idle")
    /\ (connPc["c1"] = "register") ~> (connPc["c1"] = "read")
    /\ (connPc["c1"] = "unreg") ~> (connPc["c1"] = "done")

\* C35 happens: the handler of c1 waits to send on RegisterCh, Hub.Run is
\* blocked in Hub.Broadcast at its send to the lobby's full channel with h.mu
\* held, and Room.Run stands ready to take a message out.
C35_ChainOfWaiting ==
    /\ connPc["c1"] = "register"
    /\ callPc["hub"] = "bc_send"
    /\ hubMu = "hub"
    /\ ~CanEnqueue("lobby")
    /\ roomPc["lobby"] = "recv"


\* the positions of message m in the sequence s
Positions(s, m) == {i \in 1..Len(s) : s[i] = m}

\* C36: no message is enqueued more than once to the mailbox of a connection:
\* what the history replay gave it, the room's fan-out does not give it as
\* well, nor the other way round.
C36_EnqueuedOnce ==
    \A c \in Conns : \A i \in 1..Len(delivered[c]) :
        Positions(delivered[c], delivered[c][i]) = {i}

\* C36, the state refuting it: c1 sent a message to its room before its
\* registration had replayed the History; Room.Run gave c1 the message and
\* appended it to History, and the replay then gave it to c1 again.
C36_OwnMessageTwice ==
    /\ Len(replayed["c1"]) = 1
    /\ replayed["c1"][1].src = "c1" /\ replayed["c1"][1].n = 1
    /\ replayed["c1"][1].Type = <<"message">>
    /\ delivered["c1"] = <<replayed["c1"][1], replayed["c1"][1]>>


\* message m is a broadcast that ReadSocket of connection c sent to its room
SentBy(m, c) == m.src = c /\ m.n > 0

\* C37: in the order in which a room's loop takes the messages (the order of
\* its History), the "joined" message of a connection comes before every
\* message the connection sent to the room, and its "left" message after
\* every one of them.
C37_JoinedFirstLeftLast ==
    \A rn \in RoomNames : \A c \in Conns :
        \A i \in 1..Len(processed[rn]) :
            SentBy(processed[rn][i], c) =>
                /\ \E j \in 1..(i - 1) : processed[rn][j] = JoinedMsg(c, rn)
                /\ \A j \in 1..(i - 1) : processed[rn][j] # LeftMsg(c, rn, 1)

\* C37, the state refuting it: the lobby's loop has taken, and its History
\* holds, a message sent by c1 and after it the "joined" message of c1.
C37_SpokeBeforeJoined ==
    /\ Len(history["lobby"]) = 2
    /\ SentBy(history["lobby"][1], "c1")
    /\ history["lobby"][2] = JoinedMsg("c1", "lobby")
    /\ processed["lobby"] = history["lobby"]


\* goroutine t is inside UnregisterClient
InUnregister(t) ==
    callPc[t] \in {"unreg_lock", "unreg_room", "unreg_remove", "unreg_bcast"}

\* C38: UnregisterClient on a connection that is not in Hub.Clients changes
\* nothing.  For a connection that was never given to RegisterClient, no step
\* of the call changes Hub.Clients, Hub.Rooms, a member set, a room's channel
\* or the state of Client.Close; and for any connection, there are never more
\* "left" messages of it than calls of its Close, which only an invocation
\* that found it in Hub.Clients makes.
C38_UnregisterOfUnknownIsNoOp ==
    /\ [][\A t \in Threads :
             (InUnregister(t) /\ callPc'[t] # callPc[t]
                  /\ regCalls[callArg[t].c] = 0) =>
                 /\ hubClients' = hubClients /\ hubRooms' = hubRooms
                 /\ roomClients' = roomClients
                 /\ roomLog' = roomLog /\ roomInbox' = roomInbox
                 /\ closeCalls' = closeCalls /\ closeCh' = closeCh]_vars
    /\ [](\A c \in Conns : \A rn \in RoomNames :
             Count(roomLog[rn], LAMBDA m : IsLeftOf(m, c)) <= closeCalls[c])

\* C38, the state refuting it: c1 was never registered; one UnregisterClient
\* of it has returned, Close was not called, and the call has made the room
\* lobby and published a "left" message of c1 in it.
C38_LeftWithoutJoining ==
    /\ regCalls["c1"] = 0
    /\ unregCalls["c1"] = 1
    /\ closeCalls["c1"] = 0
    /\ AllReturned
    /\ roomsMade["lobby"] = 1
    /\ roomLog["lobby"] = <<LeftMsg("c1", "lobby", 1)>>


(* ------------------------------------------------------------------ *)
(* C39                                                                *)
(* ------------------------------------------------------------------ *)
\* The direct messages one user can address to another, as either route sees them.
DirectProbes ==
    {Msg(<<"private">>, u, v, <<"hi">>, "", "", 0) : u \in {Alice, Bob, Carol}, v \in {Alice, Bob, Carol, Zed}}

\* The connections whose record of enqueued messages grew in this step.
Grown == {c \in Conns : delivered'[c] # delivered[c]}

\* C39: for one hub state and one message with a recipient, the inline loop of
\* ReadSocket and Hub.Broadcast send to the same connections; a step of either
\* route enqueues the message to exactly the mailboxes with room among the
\* connections the other route would send to, and changes no room's inbox,
\* members or History.
C39_RoutesAgree ==
    /\ [](\A m \in DirectProbes : InlineTargets(m) = DirectTargets(m))
    /\ [][(dmLog' # dmLog) =>
             /\ roomInbox' = roomInbox
             /\ history' = history
             /\ roomClients' = roomClients
             /\ roomLog' = roomLog
             /\ Grown = {c \in (IF Latest(dmLog').src = "test"
                                THEN InlineTargets(Latest(dmLog'))
                                ELSE DirectTargets(Latest(dmLog'))) :
                            Accepts(privateChan[c])}
             /\ \A c \in Grown : delivered'[c] = Append(delivered[c], Latest(dmLog'))]_vars

\* C39, its case: with the same three connections registered, alice wrote to
\* bob once by a frame and once through Hub.BroadcastCh; both connections of
\* alice and bob's hold both messages, and no room saw either.
C39_BothRoutesTaken ==
    /\ hubClients = {"c1", "c2", "c4"}
    /\ Len(dmLog) = 2
    /\ {dmLog[1].src, dmLog[2].src} = {"c1", "test"}
    /\ \A i \in 1..2 : dmLog[i].From = Alice /\ dmLog[i].To = Bob
    /\ \A c \in {"c1", "c2", "c4"} : Len(delivered[c]) = 2
    /\ \A rn \in RoomNames : roomLog[rn] = << >> \/ \A i \in 1..Len(roomLog[rn]) : roomLog[rn][i].To = Empty

====
